---- MODULE Spec2Model ----
(***************************************************************************)
(* Model of the citation resolution router (unified_router.py) and of the  *)
(* document note-rewriting engine (document_processor.py).                 *)
(*                                                                         *)
(* Strings are sequences of tokens: a token is one character ("/", "?",    *)
(* ".", " ", a digit, a letter) or one word whose letters always travel    *)
(* together ("ibid", "http", "at").  None and the empty string are both    *)
(* the empty sequence wherever the code only tests truthiness.             *)
(***************************************************************************)
EXTENDS Integers, Sequences, FiniteSets, TLC

(***************************************************************************)
(* Bounds of the model.                                                    *)
(***************************************************************************)
MaxNotes == 3
MaxFootnotes == 1
MaxAdds == 3
MaxChildren == 2
MaxWrites == 2
MaxPasses == 2
MaxTextLen == 4

(***************************************************************************)
(* String helpers (str.lower, str.strip, str.rstrip, str.split).           *)
(***************************************************************************)
Lower(t) ==
  CASE t = "A" -> "a"
    [] t = "B" -> "b"
    [] t = "Ibid" -> "ibid"
    [] t = "Id" -> "id"
    [] t = "Widgets" -> "widgets"
    [] t = "Smith" -> "smith"
    [] t = "D1" -> "d1"
    [] t = "Roe" -> "roe"
    [] OTHER -> t

LowerSeq(s) == [i \in 1..Len(s) |-> Lower(s[i])]

RECURSIVE LStrip(_)
LStrip(s) == IF s # <<>> /\ Head(s) = " " THEN LStrip(Tail(s)) ELSE s

RECURSIVE RStripTok(_, _)
RStripTok(s, t) ==
  IF s # <<>> /\ s[Len(s)] = t THEN RStripTok(SubSeq(s, 1, Len(s) - 1), t) ELSE s

Strip(s) == RStripTok(LStrip(s), " ")

Contains(s, t) == \E i \in 1..Len(s) : s[i] = t

FirstIndex(s, t) == CHOOSE i \in 1..Len(s) : s[i] = t /\ \A j \in 1..(i - 1) : s[j] # t

BeforeFirst(s, t) == SubSeq(s, 1, FirstIndex(s, t) - 1)

(***************************************************************************)
(* IBID_PATTERN, is_ibid, extract_ibid_page.                               *)
(* The pattern, matched with IGNORECASE, is in sequence:                   *)
(*   prefix   ibid | ibidem | id, each with an optional "."                *)
(*   then, optionally as a whole group:                                    *)
(*     spaces, then optionally ("at" and one or more spaces) or            *)
(*     (an optional "," or "." and spaces),                                *)
(*     then optionally "p" or "pp", an optional "." and spaces,            *)
(*     then optionally the capture: digits, an optional dash, digits       *)
(*   then an optional "." and the end of the string.                       *)
(* A parse is a pair <<c, d>>: the capture group is s[c..d-1] (empty when  *)
(* c = d).                                                                 *)
(***************************************************************************)
IsDigit(t) == t \in {"0", "1", "2", "3", "4", "5", "6", "7", "8", "9"}

IsDash(t) == t \in {"-", "endash"}

IbidWord(t) == t \in {"ibid", "ibidem", "id"}

\* positions reachable from a position of P by consuming zero or more spaces
SkipSpaces(s, P) ==
  {j \in 1..(Len(s) + 1) : \E i \in P : i <= j /\ \A k \in i..(j - 1) : s[k] = " "}

\* positions reachable from a position of P by consuming at most one token of T
OptToken(s, P, T) ==
  P \cup {i + 1 : i \in {k \in P : k <= Len(s) /\ s[k] \in T}}

\* positions reachable from a position of P by consuming exactly one token of T
OneToken(s, P, T) == {i + 1 : i \in {k \in P : k <= Len(s) /\ s[k] \in T}}

\* at least one space
SomeSpaces(s, P) == SkipSpaces(s, OneToken(s, P, {" "}))

\* s[c..d-1] is one or more digits, an optional dash, zero or more digits
IsPageCapture(s, c, d) ==
  /\ c < d
  /\ IsDigit(s[c])
  /\ \E m \in c..(d - 1) :
       /\ \A k \in c..m : IsDigit(s[k])
       /\ \/ m = d - 1
          \/ /\ IsDash(s[m + 1])
             /\ \A k \in (m + 2)..(d - 1) : IsDigit(s[k])

\* positions at which the capture group may start in the lower-cased text s
PageStarts(s) ==
  LET p0 == IF Len(s) >= 1 /\ IbidWord(s[1]) THEN {2} ELSE {}
      p1 == OptToken(s, p0, {"."})
      a  == SkipSpaces(s, p1)
      b  == SomeSpaces(s, OneToken(s, a, {"at"}))
              \cup SkipSpaces(s, OptToken(s, a, {",", "."}))
  IN  b \cup SkipSpaces(s, OptToken(s, OptToken(s, OneToken(s, b, {"p"}), {"p"}), {"."}))

\* the parses <<c, d>> with c in C: an optional capture s[c..d-1], an optional
\* "." and the end of s
ParsesFrom(s, C) ==
  {cd \in C \X (1..(Len(s) + 1)) :
     /\ cd[1] <= cd[2]
     /\ cd[1] = cd[2] \/ IsPageCapture(s, cd[1], cd[2])
     /\ (Len(s) + 1) \in OptToken(s, {cd[2]}, {"."})}

IbidParses(raw) ==
  UNION {ParsesFrom(s, PageStarts(s)) : s \in {LowerSeq(raw)}}

is_ibid(text) ==
  IF text = <<>> THEN FALSE ELSE IbidParses(Strip(text)) # {}

\* re.match returns the first parse of the backtracking search: every optional
\* part is greedy, so the capture group participates whenever a parse with a
\* capture exists
extract_ibid_page(text) ==
  IF text = <<>> THEN <<>>
  ELSE LET cleaned  == Strip(text)
           captures == {cd \in IbidParses(cleaned) : cd[1] < cd[2]}
       IN  IF captures = {} THEN <<>>
           ELSE LET cd == CHOOSE x \in captures : \A y \in captures : x[1] <= y[1]
                IN  Strip(SubSeq(cleaned, cd[1], cd[2] - 1))

(***************************************************************************)
(* normalize_url, urls_match.                                              *)
(***************************************************************************)
normalize_url(url) ==
  IF url = <<>> THEN <<>>
  ELSE LET lowered  == LowerSeq(Strip(url))
           stripped == RStripTok(lowered, "/")
       IN  IF Contains(stripped, "?") THEN BeforeFirst(stripped, "?") ELSE stripped

urls_match(url1, url2) ==
  IF url1 = <<>> \/ url2 = <<>> THEN FALSE
  ELSE normalize_url(url1) = normalize_url(url2)

(***************************************************************************)
(* CitationMetadata: a record of token strings; authors is a sequence of   *)
(* strings.  NoneMeta stands for a None metadata.                          *)
(***************************************************************************)
NoneMeta == [citation_type |-> "None"]

Meta(type, doi, url, case_name, citation, title, authors) ==
  [citation_type |-> type, doi |-> doi, url |-> url, case_name |-> case_name,
   citation |-> citation, title |-> title, authors |-> authors, source_engine |-> ""]

\* getattr(metadata, 'url', None)
MetaUrl(metadata) == IF metadata = NoneMeta THEN <<>> ELSE metadata.url

\* models.normalize_doi: case-folded, whitespace and "doi:" prefix stripped
normalize_doi(doi) ==
  LET s == LowerSeq(Strip(doi))
  IN  IF s # <<>> /\ Head(s) = "doi:" THEN LStrip(Tail(s)) ELSE s

\* CitationMetadata.has_minimum_data: legal needs a case name or a citation,
\* every other type needs a title
has_minimum_data(metadata) ==
  IF metadata.citation_type = "legal"
  THEN metadata.case_name # <<>> \/ metadata.citation # <<>>
  ELSE metadata.title # <<>>

(***************************************************************************)
(* generate_source_key, sources_match.  A key is a token string; NoKey is  *)
(* the None key.                                                           *)
(***************************************************************************)
NoKey == <<>>

\* mutant: the URL is tried before the DOI
generate_source_key_url_first(metadata) ==
  IF metadata = NoneMeta THEN NoKey
  ELSE IF metadata.url # <<>>
    THEN <<"url:">> \o normalize_url(metadata.url)
  ELSE IF metadata.doi # <<>> /\ normalize_doi(metadata.doi) # <<>>
    THEN <<"doi:">> \o normalize_doi(metadata.doi)
  ELSE IF metadata.case_name # <<>> /\ metadata.citation # <<>>
    THEN <<"legal:">> \o Strip(LowerSeq(metadata.case_name)) \o <<"|">>
           \o Strip(LowerSeq(metadata.citation))
  ELSE IF metadata.title # <<>>
    THEN <<"title:">> \o Strip(LowerSeq(metadata.title))
           \o (IF Len(metadata.authors) > 0
               THEN <<"|author:">> \o Strip(LowerSeq(metadata.authors[1]))
               ELSE <<>>)
  ELSE IF metadata.case_name # <<>>
    THEN <<"case:">> \o Strip(LowerSeq(metadata.case_name))
  ELSE NoKey

generate_source_key(metadata) ==
  IF metadata = NoneMeta THEN NoKey
  ELSE IF metadata.doi # <<>> /\ normalize_doi(metadata.doi) # <<>>
    THEN <<"doi:">> \o normalize_doi(metadata.doi)
  ELSE IF metadata.url # <<>>
    THEN <<"url:">> \o normalize_url(metadata.url)
  ELSE IF metadata.case_name # <<>> /\ metadata.citation # <<>>
    THEN <<"legal:">> \o Strip(LowerSeq(metadata.case_name)) \o <<"|">>
           \o Strip(LowerSeq(metadata.citation))
  ELSE IF metadata.title # <<>>
    THEN <<"title:">> \o Strip(LowerSeq(metadata.title))
           \o (IF Len(metadata.authors) > 0
               THEN <<"|author:">> \o Strip(LowerSeq(metadata.authors[1]))
               ELSE <<>>)
  ELSE IF metadata.case_name # <<>>
    THEN <<"case:">> \o Strip(LowerSeq(metadata.case_name))
  ELSE NoKey

\* mutant: only the DOIs are compared
sources_match_doi_only(metadata1, metadata2) ==
  /\ metadata1 # NoneMeta /\ metadata2 # NoneMeta
  /\ metadata1.doi # <<>>
  /\ normalize_doi(metadata1.doi) = normalize_doi(metadata2.doi)

\* mutant: the keys are compared without the test for None
sources_match_no_none_test(metadata1, metadata2) ==
  generate_source_key(metadata1) = generate_source_key(metadata2)

sources_match(metadata1, metadata2) ==
  LET key1 == generate_source_key(metadata1)
      key2 == generate_source_key(metadata2)
  IN  IF key1 = NoKey \/ key2 = NoKey THEN FALSE ELSE key1 = key2

(***************************************************************************)
(* Formatted strings.  The style formatter is a collaborator: a formatted  *)
(* string is kept as the call that produced it.  Raw(text) is a note text  *)
(* used as a display string, EmptyFormatted the empty string.              *)
(***************************************************************************)
Raw(text) == [form |-> "raw", text |-> text]

EmptyFormatted == [form |-> "empty"]

\* formatter.format(metadata)
format_full(metadata) == [form |-> "full", meta |-> metadata]

\* formatter.format_short(metadata)
format_short(metadata) == [form |-> "short", meta |-> metadata]

\* BaseFormatter.format_ibid(page)
format_ibid(page) == [form |-> "ibid", page |-> page]

(***************************************************************************)
(* CitationHistory.                                                        *)
(***************************************************************************)
NoEntry == [note_number |-> 0]

CitationHistoryEntry(metadata, formatted, source_key, note_number) ==
  [metadata |-> metadata, formatted |-> formatted, source_key |-> source_key,
   note_number |-> note_number]

\* CitationHistory.__init__ ; all_sources is the set of (key, entry) pairs
NewHistory == [previous |-> NoEntry, all_sources |-> {}, note_counter |-> 0]

SourceKeys(h) == {kv[1] : kv \in h.all_sources}

\* mutant: the latest entry of a key replaces the first
HistoryAdd_last_wins(h, metadata, formatted) ==
  LET source_key == generate_source_key(metadata)
      entry == CitationHistoryEntry(metadata, formatted, source_key, h.note_counter + 1)
  IN  [previous |-> entry,
       all_sources |-> IF source_key # NoKey
                       THEN {kv \in h.all_sources : kv[1] # source_key} \cup {<<source_key, entry>>}
                       ELSE h.all_sources,
       note_counter |-> h.note_counter + 1]

HistoryAdd(h, metadata, formatted) ==
  LET source_key == generate_source_key(metadata)
      entry == CitationHistoryEntry(metadata, formatted, source_key, h.note_counter + 1)
  IN  [previous |-> entry,
       all_sources |-> IF source_key # NoKey /\ source_key \notin SourceKeys(h)
                       THEN h.all_sources \cup {<<source_key, entry>>}
                       ELSE h.all_sources,
       note_counter |-> h.note_counter + 1]

is_same_as_previous(h, metadata) ==
  IF h.previous = NoEntry THEN FALSE
  ELSE sources_match(metadata, h.previous.metadata)

has_been_cited_before(h, metadata) ==
  LET source_key == generate_source_key(metadata)
  IN  IF source_key = NoKey THEN FALSE ELSE source_key \in SourceKeys(h)

get_previous_metadata(h) ==
  IF h.previous # NoEntry THEN h.previous.metadata ELSE NoneMeta

get_previous_url(h) ==
  IF h.previous # NoEntry /\ h.previous.metadata # NoneMeta
  THEN MetaUrl(h.previous.metadata) ELSE <<>>

(***************************************************************************)
(* process_document: the per-note decision.                                *)
(***************************************************************************)
NoneFormatted == [form |-> "None"]

ProcessedCitation(original, formatted, metadata, url, success, error, citation_form) ==
  [original |-> original, formatted |-> formatted, metadata |-> metadata, url |-> url,
   success |-> success, error |-> error, citation_form |-> citation_form]

\* what one call of get_citation does: returns a pair, raises, or does not
\* return within NOTE_TIMEOUT
Returned(metadata, formatted) == [kind |-> "returned", metadata |-> metadata, formatted |-> formatted]

Raised == [kind |-> "raised"]

TimedOut == [kind |-> "timeout"]

Pair(metadata, formatted) == [metadata |-> metadata, formatted |-> formatted]

NotCalled == [called |-> FALSE]

get_citation_with_timeout(call) ==
  IF call.kind = "returned" THEN Pair(call.metadata, call.formatted)
  ELSE Pair(NoneMeta, NoneFormatted)

Falsy(formatted) == formatted \in {NoneFormatted, EmptyFormatted}

NoWrite == [written |-> FALSE]

Write(note_type, note_id, content) ==
  [written |-> TRUE, note_type |-> note_type, note_id |-> note_id, content |-> content]

\* the effect of one process_single_note call
Outcome(result, history, write) == [result |-> result, history |-> history, write |-> write]

\* "if not metadata or not full_formatted"
ResolutionFailed(metadata, full_formatted) == metadata = NoneMeta \/ Falsy(full_formatted)

\* mutant: the failed note reports the router's (empty) text
NoMetadataResult_router_text(original_text, full_formatted) ==
  ProcessedCitation(original_text, full_formatted, NoneMeta, <<>>, FALSE, "No metadata found", "full")

\* the ProcessedCitation of a note that did not resolve
NoMetadataResult(original_text, full_formatted) ==
  ProcessedCitation(original_text, Raw(original_text), NoneMeta, <<>>, FALSE, "No metadata found", "full")

\* mutant: the failure carries no cause
NoAntecedentResult_no_cause(original_text) ==
  ProcessedCitation(original_text, Raw(original_text), NoneMeta, <<>>, FALSE, "", "ibid")

\* the ProcessedCitation of an explicit ibid without previous citation
NoAntecedentResult(original_text) ==
  ProcessedCitation(original_text, Raw(original_text), NoneMeta, <<>>, FALSE,
                    "ibid reference but no previous citation found", "ibid")

\* the except branch of process_single_note
ExceptionResult(original_text) ==
  ProcessedCitation(original_text, Raw(original_text), NoneMeta, <<>>, FALSE, "exception", "full")

\* the note text used as URL when the metadata carries none
CurrentUrl(metadata, original_text) ==
  IF MetaUrl(metadata) = <<>> /\ Strip(original_text) # <<>> /\ Head(Strip(original_text)) = "http"
  THEN Strip(original_text)
  ELSE MetaUrl(metadata)

\* mutant: the cited-before test comes before the two Ibid tests
DecideForm_short_first(h, metadata, current_url) ==
  IF has_been_cited_before(h, metadata) THEN "short"
  ELSE IF current_url # <<>> /\ get_previous_url(h) # <<>> /\ urls_match(current_url, get_previous_url(h))
    THEN "ibid_url"
  ELSE IF is_same_as_previous(h, metadata) THEN "ibid"
  ELSE "full"

\* mutant: the cited-before test is missing
DecideForm_never_short(h, metadata, current_url) ==
  IF current_url # <<>> /\ get_previous_url(h) # <<>> /\ urls_match(current_url, get_previous_url(h))
    THEN "ibid_url"
  ELSE IF is_same_as_previous(h, metadata) THEN "ibid"
  ELSE "full"

\* the form chosen for a resolved note (cases 2 to 5)
DecideForm(h, metadata, current_url) ==
  IF current_url # <<>> /\ get_previous_url(h) # <<>> /\ urls_match(current_url, get_previous_url(h))
    THEN "ibid_url"
  ELSE IF is_same_as_previous(h, metadata) THEN "ibid"
  ELSE IF has_been_cited_before(h, metadata) THEN "short"
  ELSE "full"

process_single_note(note, note_type, h, call, fmtRaises, writeOk) ==
  LET note_id == note.id
      original_text == note.text
      wr(content) == IF writeOk THEN Write(note_type, note_id, content) ELSE NoWrite
      raised == Outcome(ExceptionResult(original_text), h, NoWrite)
  IN
  IF is_ibid(original_text) THEN
    LET previous_metadata == get_previous_metadata(h)
        page == extract_ibid_page(original_text)
    IN  IF previous_metadata = NoneMeta
        THEN Outcome(NoAntecedentResult(original_text), h, NoWrite)
        ELSE IF fmtRaises THEN raised
        ELSE Outcome(ProcessedCitation(original_text, format_ibid(page), previous_metadata,
                                       get_previous_url(h), TRUE, "", "ibid"),
                     h, wr(format_ibid(page)))
  ELSE
    LET got == get_citation_with_timeout(call)
        metadata == got.metadata
        full_formatted == got.formatted
        current_url == CurrentUrl(metadata, original_text)
    IN  IF ResolutionFailed(metadata, full_formatted)
        THEN Outcome(NoMetadataResult(original_text, full_formatted), h, NoWrite)
        ELSE CASE DecideForm(h, metadata, current_url) = "ibid_url" ->
                    IF fmtRaises THEN raised
                    ELSE Outcome(ProcessedCitation(original_text, format_ibid(<<>>),
                                                   get_previous_metadata(h), current_url,
                                                   TRUE, "", "ibid"),
                                 h, wr(format_ibid(<<>>)))
               [] DecideForm(h, metadata, current_url) = "ibid" ->
                    IF fmtRaises THEN raised
                    ELSE Outcome(ProcessedCitation(original_text, format_ibid(<<>>), metadata,
                                                   current_url, TRUE, "", "ibid"),
                                 h, wr(format_ibid(<<>>)))
               [] DecideForm(h, metadata, current_url) = "short" ->
                    IF fmtRaises THEN raised
                    ELSE Outcome(ProcessedCitation(original_text, format_short(metadata), metadata,
                                                   current_url, TRUE, "", "short"),
                                 HistoryAdd(h, metadata, format_short(metadata)),
                                 wr(format_short(metadata)))
               [] OTHER ->
                    Outcome(ProcessedCitation(original_text, full_formatted, metadata,
                                              current_url, TRUE, "", "full"),
                            HistoryAdd(h, metadata, full_formatted), wr(full_formatted))

(***************************************************************************)
(* unified_router: what a provider call does, and the wrappers that turn   *)
(* provider data into CitationMetadata.                                    *)
(***************************************************************************)
Ok(value) == [kind |-> "ok", value |-> value]

Err == [kind |-> "raise"]

\* a falsy provider answer: None, an empty dict or an empty list
NoData == [citation_type |-> "None"]

LegalDict(case_name, citation) == [case_name |-> case_name, citation |-> citation]

BookDict(title) == [title |-> title]

legal_dict_to_metadata(data) ==
  IF data = NoData THEN NoneMeta
  ELSE [Meta("legal", <<>>, <<>>, data.case_name, data.citation, <<>>, <<>>)
          EXCEPT !.source_engine = "Legal Cache/CourtListener"]

book_dict_to_metadata(data) ==
  IF data = NoData THEN NoneMeta
  ELSE [Meta("book", <<>>, <<>>, <<>>, <<>>, data.title, <<>>)
          EXCEPT !.source_engine = "Google Books/Open Library"]

\* try: superlegal.extract_metadata(query) ... except: return None
route_legal(out) ==
  IF out.kind = "raise" THEN NoneMeta
  ELSE IF out.value # NoData /\ (out.value.case_name # <<>> \/ out.value.citation # <<>>)
    THEN legal_dict_to_metadata(out.value)
  ELSE NoneMeta

\* try: books.extract_metadata(query) ... except: return None
route_book(out) ==
  IF out.kind = "raise" THEN NoneMeta
  ELSE IF Len(out.value) > 0 THEN book_dict_to_metadata(out.value[1])
  ELSE NoneMeta

\* try: _crossref.get_by_id(doi) ... except: pass   (in _route_journal)
journal_by_id(out) ==
  IF out.kind = "raise" THEN NoneMeta ELSE out.value

\* try: result = engine call; if result and result.has_minimum_data(): result.url = url
\* ... except: pass   (in _route_url)
url_lookup(out, url) ==
  IF out.kind = "raise" THEN NoneMeta
  ELSE IF out.value # NoneMeta /\ has_minimum_data(out.value) THEN [out.value EXCEPT !.url = url]
  ELSE NoneMeta

\* CitationMetadata(citation_type=JOURNAL, ..., **famous)
famous_metadata(famous) ==
  [Meta("journal", famous.doi, <<>>, <<>>, <<>>, famous.title, <<>>)
     EXCEPT !.source_engine = "Famous Papers Cache"]

\* "Return best result (prefer one with DOI)"
BestResult(rs) ==
  IF rs = <<>> THEN NoneMeta
  ELSE IF \E i \in 1..Len(rs) : rs[i].doi # <<>>
    THEN rs[CHOOSE i \in 1..Len(rs) : rs[i].doi # <<>> /\ \A j \in 1..(i - 1) : rs[j].doi = <<>>]
  ELSE rs[1]

\* the loop body of the fan-out: future.result(), the completeness test and
\* the source_engine assignment
Collect(rs, engine_name, out) ==
  IF out.kind = "raise" THEN rs
  ELSE IF out.value # NoneMeta /\ has_minimum_data(out.value)
    THEN Append(rs, [out.value EXCEPT !.source_engine = engine_name])
  ELSE rs

\* "return metadata, formatter.format(metadata)" and "return None, ''"
RouterReturn(metadata) ==
  IF metadata # NoneMeta THEN Returned(metadata, format_full(metadata))
  ELSE Returned(NoneMeta, EmptyFormatted)

(***************************************************************************)
(* Inputs of the document run: note texts, and what the router can return  *)
(* for a note.                                                             *)
(***************************************************************************)
TextQuery == <<"smith", ",", " ", "widgets">>

TextIbidPage == <<"Ibid", ".", ",", " ", "1", "2">>

TextIbid == <<"id", ".">>

TextUrl == <<"http", "a", "/">>

NoteTexts == {TextQuery, TextIbidPage, TextIbid, TextUrl}

\* a book: keyed by title and first author
MBook == Meta("book", <<>>, <<>>, <<>>, <<>>, <<"Widgets">>, <<(<<"Smith">>)>>)

\* a web page: keyed by its URL
MWeb == Meta("url", <<>>, <<"http", "A", "/">>, <<>>, <<>>, <<"page">>, <<>>)

\* an article: keyed by its DOI, its URL is the page's URL with a query string
MArticle == Meta("journal", <<"doi:", "d1">>, <<"http", "a", "?", "q">>, <<>>, <<>>, <<"paper">>, <<>>)

\* a legal record with a citation and no case name: no source key
MLegalBare == Meta("legal", <<>>, <<>>, <<>>, <<"410", " ", "us">>, <<>>, <<>>)

MetaPool == {MBook, MWeb, MArticle, MLegalBare}

\* what get_citation can do for a note text: a URL resolves to the page or to
\* a record without URL, a free-text query to a book, an article or a legal
\* record; any call can fail
CallOutcomes(text) ==
  IF text = TextUrl
  THEN {Returned(MWeb, format_full(MWeb)), Returned(MBook, format_full(MBook)), TimedOut}
  ELSE {Returned(m, format_full(m)) : m \in {MBook, MArticle, MLegalBare}}
         \cup {Returned(MBook, EmptyFormatted), Returned(NoneMeta, EmptyFormatted), Raised}

SeqsUpTo(S, n) == UNION {[1..k -> S] : k \in 0..n}

Notes(texts) == [i \in 1..Len(texts) |-> [id |-> i, text |-> texts[i]]]

(***************************************************************************)
(* State.                                                                  *)
(*   endnotes, footnotes  the notes read by get_endnotes / get_footnotes   *)
(*   history              the CitationHistory of the run                   *)
(*   results              the ProcessedCitation list                       *)
(*   calls                per note, what the get_citation call did         *)
(*                        (NotCalled for an explicit ibid)                 *)
(*   idx                  number of loop iterations done                   *)
(*   body                 the content of each note in the unpacked package *)
(*   dpc                  position of process_document                     *)
(*   fault                the environment of the run: "none", "formatter"  *)
(*                        (format_ibid and format_short raise) or "disk"   *)
(*                        (the note parts cannot be written)               *)
(***************************************************************************)
VARIABLES endnotes, footnotes, history, results, calls, idx, body, dpc, fault,
          rpc, rquery, rcont, running, collected, rret, invoked, called, ai_available,
          adds, probe, probe_key, kpc,
          xml, xml_before, wop, writes,
          pkg, pkg_before, passes,
          arg1, arg2, fret, fpc,
          mquery, mresults, mcalled, mpc,
          job, stage, tree, tempdirs, outcome

docvars == <<endnotes, footnotes, history, results, calls, idx, body, dpc, fault>>

routervars == <<rpc, rquery, rcont, running, collected, rret, invoked, called, ai_available>>

libvars == <<adds, probe, probe_key, kpc>>

xmlvars == <<xml, xml_before, wop, writes>>

linkvars == <<pkg, pkg_before, passes>>

textvars == <<arg1, arg2, fret, fpc>>

multivars == <<mquery, mresults, mcalled, mpc>>

pkgvars == <<job, stage, tree, tempdirs, outcome>>

vars == <<endnotes, footnotes, history, results, calls, idx, body, dpc, fault,
          rpc, rquery, rcont, running, collected, rret, invoked, called, ai_available,
          adds, probe, probe_key, kpc,
          xml, xml_before, wop, writes,
          pkg, pkg_before, passes,
          arg1, arg2, fret, fpc,
          mquery, mresults, mcalled, mpc,
          job, stage, tree, tempdirs, outcome>>

NoteKeys == {<<"endnote", i>> : i \in 1..Len(endnotes)} \cup {<<"footnote", i>> : i \in 1..Len(footnotes)}

AllNotes == endnotes \o footnotes

FaultModes == {"none", "formatter", "disk"}

DocInit ==
  /\ \E et \in SeqsUpTo(NoteTexts, MaxNotes), ft \in SeqsUpTo(NoteTexts, MaxFootnotes) :
       /\ Len(et) + Len(ft) <= MaxNotes
       /\ endnotes = Notes(et)
       /\ footnotes = Notes(ft)
       /\ body = [k \in {<<"endnote", i>> : i \in 1..Len(et)} \cup {<<"footnote", i>> : i \in 1..Len(ft)}
                    |-> Raw(IF k[1] = "endnote" THEN et[k[2]] ELSE ft[k[2]])]
  /\ history = NewHistory
  /\ results = <<>>
  /\ calls = <<>>
  /\ idx = 0
  /\ dpc = "notes"
  /\ fault \in FaultModes

\* processor.write_endnote / write_footnote on the unpacked package
ApplyWrite(b, w) ==
  IF w.written THEN [b EXCEPT ![<<w.note_type, w.note_id>>] = w.content] ELSE b

\* mutant: only successful results are appended
Apply_drop_failed(o) ==
  /\ results' = IF o.result.success THEN Append(results, o.result) ELSE results
  /\ history' = o.history
  /\ body' = ApplyWrite(body, o.write)

\* mutant: History.add runs after every successful decision
Apply_adds_every_success(o) ==
  /\ results' = Append(results, o.result)
  /\ history' = IF o.result.success /\ o.history = history
                THEN HistoryAdd(history, o.result.metadata, o.result.formatted)
                ELSE o.history
  /\ body' = ApplyWrite(body, o.write)

\* results.append(result), with the effects of the call on History and package
Apply(o) ==
  /\ results' = Append(results, o.result)
  /\ history' = o.history
  /\ body' = ApplyWrite(body, o.write)

\* one iteration of a loop of process_document
ProcessNote(note, note_type) ==
  \E call \in CallOutcomes(note.text) :
    /\ calls' = Append(calls, IF is_ibid(note.text) THEN NotCalled ELSE call)
    /\ idx' = idx + 1
    /\ \E o \in {process_single_note(note, note_type, history, call,
                                       fault = "formatter", fault # "disk")} : Apply(o)

ProcessEndnote ==
  /\ dpc = "notes"
  /\ idx < Len(endnotes)
  /\ ProcessNote(endnotes[idx + 1], "endnote")
  /\ UNCHANGED <<endnotes, footnotes, dpc, fault>>
  /\ UNCHANGED routervars
  /\ UNCHANGED libvars
  /\ UNCHANGED xmlvars
  /\ UNCHANGED linkvars
  /\ UNCHANGED textvars
  /\ UNCHANGED multivars
  /\ UNCHANGED pkgvars

ProcessFootnote ==
  /\ dpc = "notes"
  /\ idx >= Len(endnotes)
  /\ idx < Len(endnotes) + Len(footnotes)
  /\ ProcessNote(footnotes[idx - Len(endnotes) + 1], "footnote")
  /\ UNCHANGED <<endnotes, footnotes, dpc, fault>>
  /\ UNCHANGED routervars
  /\ UNCHANGED libvars
  /\ UNCHANGED xmlvars
  /\ UNCHANGED linkvars
  /\ UNCHANGED textvars
  /\ UNCHANGED multivars
  /\ UNCHANGED pkgvars

\* the loops are over: process_document returns the results
FinishDocument ==
  /\ dpc = "notes"
  /\ idx = Len(endnotes) + Len(footnotes)
  /\ dpc' = "done"
  /\ UNCHANGED <<endnotes, footnotes, history, results, calls, idx, body, fault>>
  /\ UNCHANGED routervars
  /\ UNCHANGED libvars
  /\ UNCHANGED xmlvars
  /\ UNCHANGED linkvars
  /\ UNCHANGED textvars
  /\ UNCHANGED multivars
  /\ UNCHANGED pkgvars

DocNext == ProcessEndnote \/ ProcessFootnote \/ FinishDocument

(***************************************************************************)
(* The router run: route_citation is called again and again.  A query is   *)
(* what the detectors see in it.                                           *)
(***************************************************************************)
Query(text, legal, url, dtype, famous, doi, urldoi, academic, medical) ==
  [text |-> text, legal |-> legal, url |-> url, dtype |-> dtype, famous |-> famous,
   doi |-> doi, urldoi |-> urldoi, academic |-> academic, medical |-> medical]

FamousEntry == [doi |-> <<"d9">>, title |-> <<"Relativity">>]

QEmpty == Query(<<" ">>, FALSE, FALSE, "unknown", NoData, FALSE, FALSE, FALSE, FALSE)

QLegal == Query(<<"roe", "v", "wade">>, TRUE, FALSE, "legal", NoData, FALSE, FALSE, FALSE, FALSE)

QBook == Query(<<"widgets", "press">>, FALSE, FALSE, "book", NoData, FALSE, FALSE, FALSE, FALSE)

QJournal == Query(<<"smith", "journal">>, FALSE, FALSE, "journal", NoData, FALSE, FALSE, FALSE, FALSE)

QFamous == Query(<<"einstein">>, FALSE, FALSE, "medical", FamousEntry, FALSE, FALSE, FALSE, FALSE)

QDoi == Query(<<"10.1000/", "d1">>, FALSE, FALSE, "journal", NoData, TRUE, FALSE, FALSE, FALSE)

QNews == Query(<<"times">>, FALSE, FALSE, "newspaper", NoData, FALSE, FALSE, FALSE, FALSE)

QUnknown == Query(<<"smith">>, FALSE, FALSE, "unknown", NoData, FALSE, FALSE, FALSE, FALSE)

QUnknownFamous == Query(<<"relativity">>, FALSE, FALSE, "unknown", FamousEntry, FALSE, FALSE, FALSE, FALSE)

QUrlDoi == Query(<<"http", "doi.org", "/", "10.1000/", "d1">>, FALSE, TRUE, "url", NoData, TRUE, TRUE, FALSE, FALSE)

QUrlMedical == Query(<<"http", "pubmed", "/", "a">>, FALSE, TRUE, "url", NoData, FALSE, FALSE, TRUE, TRUE)

Queries == {QEmpty, QLegal, QBook, QJournal, QFamous, QDoi, QNews, QUnknown, QUnknownFamous,
            QUrlDoi, QUrlMedical}

JDoi == Meta("journal", <<"d1">>, <<>>, <<>>, <<>>, <<"Widgets">>, <<(<<"Smith">>)>>)

JNoDoi == Meta("journal", <<>>, <<>>, <<>>, <<>>, <<"Widgets">>, <<(<<"Smith">>)>>)

JNoTitle == Meta("journal", <<"d1">>, <<>>, <<>>, <<>>, <<>>, <<>>)

PageGood == Meta("newspaper", <<>>, <<"http", "a">>, <<>>, <<>>, <<"Headline">>, <<>>)

PageNoTitle == Meta("newspaper", <<>>, <<"http", "a">>, <<>>, <<>>, <<>>, <<>>)

\* superlegal.extract_metadata
LegalOutcomes == {Ok(LegalDict(<<"roe">>, <<"410", "us">>)), Ok(LegalDict(<<>>, <<"410", "us">>)),
                  Ok(LegalDict(<<>>, <<>>)), Ok(NoData), Err}

\* books.extract_metadata
BookOutcomes == {Ok(<<BookDict(<<"Widgets">>)>>), Ok(<<BookDict(<<>>)>>), Ok(<<>>), Err}

\* _crossref.get_by_id
ByIdOutcomes == {Ok(JDoi), Ok(JNoTitle), Ok(NoneMeta), Err}

\* the search method of the four academic engines
SearchOutcomes == {Ok(JDoi), Ok(JNoDoi), Ok(JNoTitle), Ok(NoneMeta), Err}

\* extract_by_type
ExtractOutcomes == {Ok(PageGood), Ok(PageNoTitle), Ok(NoneMeta), Err}

\* classify_with_ai: the type only, route_citation drops the metadata
AITypes == {"unknown", "book", "legal", "journal", "medical", "newspaper", "government", "url"}

Engines == {"Crossref", "OpenAlex", "Semantic Scholar", "PubMed"}

NotReturned == [kind |-> "running"]

RouterIdle ==
  /\ rpc = "idle"
  /\ rquery = QEmpty
  /\ rcont = "none"
  /\ running = {}
  /\ collected = <<>>
  /\ rret = NotReturned
  /\ invoked = FALSE
  /\ called = <<>>

DocIdle ==
  /\ endnotes = <<>>
  /\ footnotes = <<>>
  /\ body = [k \in {} |-> Raw(<<>>)]
  /\ history = NewHistory
  /\ results = <<>>
  /\ calls = <<>>
  /\ idx = 0
  /\ dpc = "notes"
  /\ fault = "none"

NoJob == [op |-> "none"]

NoTree == [p \in {} |-> NoJob]

\* no package operation is underway
PackageIdle ==
  /\ job = NoJob
  /\ stage = "idle"
  /\ tree = NoTree
  /\ tempdirs = {}
  /\ outcome = NoJob

\* no call of get_multiple_citations is underway
MultiIdle ==
  /\ mquery = <<>>
  /\ mresults = <<>>
  /\ mcalled = <<>>
  /\ mpc = "idle"

NoRet == [kind |-> "none"]

\* no call of the text functions is underway
TextIdle ==
  /\ arg1 = <<>>
  /\ arg2 = <<>>
  /\ fret = NoRet
  /\ fpc = "idle"

\* no package is handed to LinkActivator
LinksIdle ==
  /\ pkg = <<>>
  /\ pkg_before = <<>>
  /\ passes = 0

NoOp == [op |-> "none"]

\* no note file is open
XmlIdle ==
  /\ xml = <<>>
  /\ xml_before = <<>>
  /\ wop = NoOp
  /\ writes = 0

\* no call of the source-key functions or of a bare CitationHistory is underway
LibIdle ==
  /\ adds = <<>>
  /\ probe = NoneMeta
  /\ probe_key = NoKey
  /\ kpc = "idle"

RouterInit == DocIdle /\ RouterIdle /\ LibIdle /\ XmlIdle /\ LinksIdle /\ TextIdle /\ MultiIdle /\ PackageIdle /\ ai_available \in BOOLEAN

\* the provider calls route_citation has made so far, in order, each with
\* whether it gave the caller something to use
Called(tr, name, yields) == Append(tr, [call |-> name, yields |-> yields])

ProviderCalled(tr) == \E i \in 1..Len(tr) : tr[i].call # "classify_with_ai"

\* route_citation returns or raises after the calls tr
Finish(ret, tr) ==
  /\ rpc' = "done"
  /\ rret' = ret
  /\ invoked' = ProviderCalled(tr)
  /\ called' = tr
  /\ rcont' = "none"
  /\ running' = {}
  /\ collected' = <<>>

ReturnMetadata(metadata, tr) == Finish(RouterReturn(metadata), tr)

\* the executor.submit calls of _route_journal, called at `site` of route_citation
Submit(site, tr) ==
  /\ rpc' = "fanout"
  /\ rcont' = site
  /\ running' = Engines
  /\ collected' = <<>>
  /\ rret' = NotReturned
  /\ invoked' = TRUE
  /\ called' = tr

\* _route_journal up to the submission of the four searches: a DOI lookup
\* that answers is returned at once, and every caller returns it in turn
route_journal(q, site, tr) ==
  LET ByDoi(t) ==
        IF q.doi
        THEN \E o \in ByIdOutcomes :
               IF journal_by_id(o) # NoneMeta
               THEN ReturnMetadata(journal_by_id(o), Called(t, "get_by_id", TRUE))
               ELSE Submit(site, Called(t, "get_by_id", FALSE))
        ELSE Submit(site, t)
  IN  IF q.famous # NoData
      THEN \E o \in ByIdOutcomes :
             IF journal_by_id(o) # NoneMeta
             THEN ReturnMetadata(journal_by_id(o), Called(tr, "get_by_id", TRUE))
             ELSE ByDoi(Called(tr, "get_by_id", FALSE))
      ELSE ByDoi(tr)

\* mutant: the journal providers are tried before the books
Fallback_journal_first(q, metadata, tr) ==
  IF metadata # NoneMeta THEN ReturnMetadata(metadata, tr)
  ELSE route_journal(q, "fallback", tr)

\* "Fallback: try books first, then journals"
Fallback(q, metadata, tr) ==
  IF metadata # NoneMeta THEN ReturnMetadata(metadata, tr)
  ELSE \E bo \in BookOutcomes :
         IF route_book(bo) # NoneMeta
         THEN ReturnMetadata(route_book(bo), Called(tr, "books", TRUE))
         ELSE route_journal(q, "fallback", Called(tr, "books", FALSE))

\* the UNKNOWN branch of route_citation; extract_by_type is called outside any try
RouteUnknown(q, tr) ==
  IF ai_available
  THEN \E ai_type \in AITypes :
         LET t == Called(tr, "classify_with_ai", ai_type # "unknown")
         IN  CASE ai_type = "book" ->
                    \E bo \in BookOutcomes :
                      Fallback(q, route_book(bo), Called(t, "books", route_book(bo) # NoneMeta))
               [] ai_type = "legal" ->
                    \E lo \in LegalOutcomes :
                      Fallback(q, route_legal(lo), Called(t, "superlegal", route_legal(lo) # NoneMeta))
               [] ai_type \in {"journal", "medical"} -> route_journal(q, "ai", t)
               [] ai_type \in {"newspaper", "government"} ->
                    \E eo \in ExtractOutcomes :
                      IF eo.kind = "raise" THEN Finish(Raised, Called(t, "extract_by_type", FALSE))
                      ELSE Fallback(q, eo.value, Called(t, "extract_by_type", eo.value # NoneMeta))
               [] OTHER -> Fallback(q, NoneMeta, t)
  ELSE Fallback(q, NoneMeta, tr)

\* steps 3 and 4 of route_citation: detect_type and the dispatch on it
RouteDetected(q, tr) ==
  CASE q.dtype = "legal" ->
         \E lo \in LegalOutcomes :
           ReturnMetadata(route_legal(lo), Called(tr, "superlegal", route_legal(lo) # NoneMeta))
    [] q.dtype = "book" ->
         \E bo \in BookOutcomes :
           ReturnMetadata(route_book(bo), Called(tr, "books", route_book(bo) # NoneMeta))
    [] q.dtype \in {"journal", "medical"} ->
         IF q.famous # NoData THEN ReturnMetadata(famous_metadata(q.famous), tr)
         ELSE route_journal(q, "detected", tr)
    [] q.dtype \in {"newspaper", "government", "interview"} ->
         \E eo \in ExtractOutcomes :
           IF eo.kind = "raise" THEN Finish(Raised, Called(tr, "extract_by_type", FALSE))
           ELSE ReturnMetadata(eo.value, Called(tr, "extract_by_type", eo.value # NoneMeta))
    [] OTHER -> RouteUnknown(q, tr)

\* _route_url, then "if metadata: return" in route_citation
route_url(q, tr) ==
  LET K(m, t) == IF m # NoneMeta THEN ReturnMetadata(m, t) ELSE RouteDetected(q, t)
      Standard(t) ==
        \E eo \in ExtractOutcomes :
          IF eo.kind = "raise" THEN Finish(Raised, Called(t, "extract_by_type", FALSE))
          ELSE K(eo.value, Called(t, "extract_by_type", eo.value # NoneMeta))
      Medical(t) ==
        IF q.medical
        THEN \E o \in SearchOutcomes :
               IF url_lookup(o, q.text) # NoneMeta
               THEN K(url_lookup(o, q.text), Called(t, "pubmed.search", TRUE))
               ELSE Standard(Called(t, "pubmed.search", FALSE))
        ELSE Standard(t)
      Academic(t) ==
        IF q.academic
        THEN \E o \in SearchOutcomes :
               IF url_lookup(o, q.text) # NoneMeta
               THEN K(url_lookup(o, q.text), Called(t, "crossref.search", TRUE))
               ELSE Medical(Called(t, "crossref.search", FALSE))
        ELSE Medical(t)
      DoiInPath(t) ==
        IF q.doi
        THEN \E o \in ByIdOutcomes :
               IF url_lookup(o, q.text) # NoneMeta
               THEN K(url_lookup(o, q.text), Called(t, "get_by_id", TRUE))
               ELSE Academic(Called(t, "get_by_id", FALSE))
        ELSE Academic(t)
  IN  IF q.urldoi
      THEN \E o \in ByIdOutcomes :
             IF url_lookup(o, q.text) # NoneMeta
             THEN K(url_lookup(o, q.text), Called(tr, "get_by_id", TRUE))
             ELSE DoiInPath(Called(tr, "get_by_id", FALSE))
      ELSE DoiInPath(tr)

\* route_citation from its first line to its return, its raise, or the
\* submission of the parallel searches
route_citation(q) ==
  LET Url(t) == IF q.url THEN route_url(q, t) ELSE RouteDetected(q, t)
  IN  IF Strip(q.text) = <<>> THEN Finish(Returned(NoneMeta, EmptyFormatted), <<>>)
      ELSE IF q.legal
        THEN \E lo \in LegalOutcomes :
               IF route_legal(lo) # NoneMeta
               THEN ReturnMetadata(route_legal(lo), Called(<<>>, "superlegal", TRUE))
               ELSE Url(Called(<<>>, "superlegal", FALSE))
      ELSE Url(<<>>)

RouteStart ==
  /\ rpc \in {"idle", "done"}
  /\ \E q \in Queries :
       /\ rquery' = q
       /\ route_citation(q)
  /\ UNCHANGED ai_available
  /\ UNCHANGED docvars
  /\ UNCHANGED libvars
  /\ UNCHANGED xmlvars
  /\ UNCHANGED linkvars
  /\ UNCHANGED textvars
  /\ UNCHANGED multivars
  /\ UNCHANGED pkgvars

\* as_completed yields a finished search and the loop body handles it
ProviderCompletes ==
  /\ rpc = "fanout"
  /\ \E engine_name \in running, out \in SearchOutcomes :
       /\ running' = running \ {engine_name}
       /\ collected' = Collect(collected, engine_name, out)
  /\ UNCHANGED <<rpc, rquery, rcont, rret, invoked, called, ai_available>>
  /\ UNCHANGED docvars
  /\ UNCHANGED libvars
  /\ UNCHANGED xmlvars
  /\ UNCHANGED linkvars
  /\ UNCHANGED textvars
  /\ UNCHANGED multivars
  /\ UNCHANGED pkgvars

\* every search was yielded: _route_journal returns its best result
FanoutReturn ==
  /\ rpc = "fanout"
  /\ running = {}
  /\ \E t \in {Called(called, "searches", BestResult(collected) # NoneMeta)} :
       IF rcont = "ai" THEN Fallback(rquery, BestResult(collected), t)
       ELSE ReturnMetadata(BestResult(collected), t)
  /\ UNCHANGED <<rquery, ai_available>>
  /\ UNCHANGED docvars
  /\ UNCHANGED libvars
  /\ UNCHANGED xmlvars
  /\ UNCHANGED linkvars
  /\ UNCHANGED textvars
  /\ UNCHANGED multivars
  /\ UNCHANGED pkgvars

\* PARALLEL_TIMEOUT elapses with a search still running: as_completed raises
\* TimeoutError in the for statement, outside every try
FanoutTimeout ==
  /\ rpc = "fanout"
  /\ running # {}
  /\ Finish(Raised, Called(called, "searches", FALSE))
  /\ UNCHANGED <<rquery, ai_available>>
  /\ UNCHANGED docvars
  /\ UNCHANGED libvars
  /\ UNCHANGED xmlvars
  /\ UNCHANGED linkvars
  /\ UNCHANGED textvars
  /\ UNCHANGED multivars
  /\ UNCHANGED pkgvars

RouterNext == RouteStart \/ ProviderCompletes \/ FanoutReturn \/ FanoutTimeout

(***************************************************************************)
(* get_multiple_citations: one call, from its first line to its return.    *)
(* mresults is the returned list, mcalled the calls made, in order.        *)
(***************************************************************************)
MultiLimit == 5

Candidate(metadata, source) ==
  [metadata |-> metadata, formatted |-> format_full(metadata), source |-> source]

\* results[:limit]
Take(rs, n) == SubSeq(rs, 1, IF Len(rs) < n THEN Len(rs) ELSE n)

\* _crossref.search_multiple
MultipleOutcomes ==
  {Ok(<<JDoi>>), Ok(<<JNoDoi>>), Ok(<<JNoTitle, JNoDoi>>), Ok(<<JDoi, PageGood>>), Ok(<<>>), Err}

\* "for meta in metadatas: if meta and meta.has_minimum_data(): results.append"
RECURSIVE AppendQualifying(_, _, _)
AppendQualifying(rs, metadatas, source) ==
  IF metadatas = <<>> THEN rs
  ELSE AppendQualifying(IF Head(metadatas) # NoneMeta /\ has_minimum_data(Head(metadatas))
                        THEN Append(rs, Candidate(Head(metadatas), source))
                        ELSE rs,
                        Tail(metadatas), source)

\* "for data in book_results[:n]: meta = _book_dict_to_metadata(data, query); if meta: ..."
RECURSIVE AppendBooks(_, _)
AppendBooks(rs, book_results) ==
  IF book_results = <<>> THEN rs
  ELSE AppendBooks(IF book_dict_to_metadata(Head(book_results)) # NoneMeta
                   THEN Append(rs, Candidate(book_dict_to_metadata(Head(book_results)),
                                             "Google Books/Open Library"))
                   ELSE rs,
                   Tail(book_results))

\* the title test that keeps a Semantic Scholar result out
is_duplicate(rs, ss_result) ==
  \E i \in 1..Len(rs) :
    /\ ss_result.title # <<>>
    /\ rs[i].metadata.title # <<>>
    /\ LowerSeq(ss_result.title) = LowerSeq(rs[i].metadata.title)

\* try: ss_result = _semantic.search(query) ... except: pass
AddSemantic(rs, out) ==
  IF out.kind = "raise" THEN rs
  ELSE IF out.value # NoneMeta /\ has_minimum_data(out.value) /\ ~is_duplicate(rs, out.value)
    THEN Append(rs, Candidate(out.value, "Semantic Scholar"))
  ELSE rs

MultiReturn(rs, tr) ==
  /\ mresults' = rs
  /\ mcalled' = tr
  /\ mpc' = "done"

MultiRaise(tr) ==
  /\ mresults' = <<>>
  /\ mcalled' = tr
  /\ mpc' = "raised"

\* "if len(results) < limit:" the Semantic Scholar search; return results[:limit]
ThenSemantic(rs, tr) ==
  IF Len(rs) < MultiLimit
  THEN \E so \in SearchOutcomes :
         MultiReturn(Take(AddSemantic(rs, so), MultiLimit), Append(tr, "semantic.search"))
  ELSE MultiReturn(Take(rs, MultiLimit), tr)

\* the Crossref search inside try, then Semantic Scholar
ThenCrossref(rs, tr) ==
  \E mo \in MultipleOutcomes :
    ThenSemantic(AppendQualifying(rs, IF mo.kind = "raise" THEN <<>> ELSE mo.value, "Crossref"),
                 Append(tr, "crossref.search_multiple"))

\* the book engines inside try
BooksFirst(rs, tr, n) ==
  \E bo \in BookOutcomes :
    LET found == AppendBooks(rs, IF bo.kind = "raise" THEN <<>> ELSE Take(bo.value, n))
        t == Append(tr, "books")
    IN  IF Len(found) < MultiLimit THEN ThenCrossref(found, t) ELSE ThenSemantic(found, t)

\* the branch "elif detection.citation_type == CitationType.UNKNOWN"
MultiUnknown(rs, tr) ==
  LET Classified(ai_type, t) ==
        CASE ai_type = "book" ->
               \E bo \in BookOutcomes :
                 ThenSemantic(AppendBooks(rs, IF bo.kind = "raise" THEN <<>>
                                              ELSE Take(bo.value, MultiLimit)),
                              Append(t, "books"))
          [] ai_type = "legal" ->
               \E lo \in LegalOutcomes :
                 MultiReturn(IF route_legal(lo) # NoneMeta
                             THEN Append(rs, Candidate(route_legal(lo), "Legal Cache")) ELSE rs,
                             Append(t, "superlegal"))
          [] ai_type \in {"journal", "medical"} ->
               \E mo \in MultipleOutcomes :
                 IF mo.kind = "raise" THEN MultiRaise(Append(t, "crossref.search_multiple"))
                 ELSE ThenSemantic(AppendQualifying(rs, mo.value, "Crossref"),
                                   Append(t, "crossref.search_multiple"))
          [] OTHER -> BooksFirst(rs, t, 3)
  IN  IF ai_available
      THEN \E ai_type \in AITypes :
             IF ai_type # "unknown" THEN Classified(ai_type, Append(tr, "classify_with_ai"))
             ELSE BooksFirst(rs, Append(tr, "classify_with_ai"), 3)
      ELSE BooksFirst(rs, tr, 3)

\* the dispatch on detection.citation_type, tested in the order of the code
MultiDetected(q, rs, tr) ==
  IF q.dtype \in {"journal", "medical", "unknown"}
  THEN ThenCrossref(IF q.famous # NoData
                    THEN Append(rs, Candidate(famous_metadata(q.famous), "Famous Papers"))
                    ELSE rs,
                    tr)
  ELSE IF q.dtype = "book" THEN BooksFirst(rs, tr, MultiLimit)
  ELSE IF q.dtype = "unknown" THEN MultiUnknown(rs, tr)
  ELSE MultiReturn(Take(rs, MultiLimit), tr)

\* the legal test: one authoritative result, returned at once
MultiLegal(q, rs, tr) ==
  IF q.legal \/ q.dtype = "legal"
  THEN \E lo \in LegalOutcomes :
         MultiReturn(IF route_legal(lo) # NoneMeta
                     THEN Append(rs, Candidate(route_legal(lo), "Legal Cache")) ELSE rs,
                     Append(tr, "superlegal"))
  ELSE MultiDetected(q, rs, tr)

get_multiple_citations(q) ==
  IF Strip(q.text) = <<>> THEN MultiReturn(<<>>, <<>>)
  ELSE IF q.url /\ q.urldoi
    THEN \E o \in ByIdOutcomes :
           MultiLegal(q, IF url_lookup(o, q.text) # NoneMeta
                         THEN <<Candidate(url_lookup(o, q.text), "Crossref (DOI)")>> ELSE <<>>,
                      <<"get_by_id">>)
  ELSE MultiLegal(q, <<>>, <<>>)

MultiInit ==
  /\ DocIdle /\ RouterIdle /\ LibIdle /\ XmlIdle /\ LinksIdle /\ TextIdle /\ PackageIdle
  /\ ai_available \in BOOLEAN
  /\ MultiIdle

GetMultiple ==
  /\ mpc = "idle"
  /\ \E q \in Queries :
       /\ mquery' = q
       /\ get_multiple_citations(q)
  /\ UNCHANGED docvars
  /\ UNCHANGED routervars
  /\ UNCHANGED libvars
  /\ UNCHANGED xmlvars
  /\ UNCHANGED linkvars
  /\ UNCHANGED textvars
  /\ UNCHANGED pkgvars

MultiNext == GetMultiple

SpecMultiple == MultiInit /\ [][MultiNext]_vars

(***************************************************************************)
(* generate_source_key applied to one metadata record.                     *)
(***************************************************************************)
KeyDois == {<<>>, <<"doi:", "D1">>, <<"d1">>, <<"doi:">>}

KeyUrls == {<<>>, <<"http", "A", "/">>, <<"http", "a", "?", "q">>}

KeyPool ==
  {NoneMeta} \cup
  {Meta("journal", doi, url, case_name, citation, title, authors) :
     doi \in KeyDois, url \in KeyUrls, case_name \in {<<>>, <<"Roe">>},
     citation \in {<<>>, <<"410", " ", "us", " ">>}, title \in {<<>>, <<" ", "Widgets">>},
     authors \in {<<>>, <<(<<"Smith">>), (<<"B">>)>>}}

KeyInit ==
  /\ DocIdle /\ RouterIdle /\ XmlIdle /\ LinksIdle /\ TextIdle /\ MultiIdle /\ PackageIdle /\ ai_available = FALSE
  /\ adds = <<>>
  /\ probe \in KeyPool
  /\ probe_key = NoKey
  /\ kpc = "input"

GenerateKey ==
  /\ kpc = "input"
  /\ probe_key' = generate_source_key(probe)
  /\ kpc' = "keyed"
  /\ UNCHANGED <<adds, probe>>
  /\ UNCHANGED docvars
  /\ UNCHANGED routervars
  /\ UNCHANGED xmlvars
  /\ UNCHANGED linkvars
  /\ UNCHANGED textvars
  /\ UNCHANGED multivars
  /\ UNCHANGED pkgvars

KeyNext == GenerateKey

SpecKey == KeyInit /\ [][KeyNext]_vars

(***************************************************************************)
(* A CitationHistory that receives add calls; adds remembers the calls.    *)
(***************************************************************************)
\* the article under another URL and title: the key of MArticle
MArticleMirror == Meta("journal", <<"D1">>, <<"http", "b">>, <<>>, <<>>, <<"reprint">>, <<>>)

\* the page under a URL that normalizes to the URL of MWeb
MWebSlash == Meta("url", <<>>, <<"http", "a">>, <<>>, <<>>, <<"home">>, <<>>)

AddPool == {MBook, MWeb, MWebSlash, MArticle, MArticleMirror, MLegalBare}

HistoryInit ==
  /\ DocIdle /\ RouterIdle /\ XmlIdle /\ LinksIdle /\ TextIdle /\ MultiIdle /\ PackageIdle /\ ai_available = FALSE
  /\ adds = <<>>
  /\ probe = NoneMeta
  /\ probe_key = NoKey
  /\ kpc = "idle"

HistoryAddCall ==
  /\ Len(adds) < MaxAdds
  /\ \E metadata \in AddPool :
       \E formatted \in {format_full(metadata), format_short(metadata)} :
         /\ history' = HistoryAdd(history, metadata, formatted)
         /\ adds' = Append(adds, [metadata |-> metadata, formatted |-> formatted])
  /\ UNCHANGED <<endnotes, footnotes, results, calls, idx, body, dpc, fault>>
  /\ UNCHANGED <<probe, probe_key, kpc>>
  /\ UNCHANGED routervars
  /\ UNCHANGED xmlvars
  /\ UNCHANGED linkvars
  /\ UNCHANGED textvars
  /\ UNCHANGED multivars
  /\ UNCHANGED pkgvars

HistoryNext == HistoryAddCall

SpecHistory == HistoryInit /\ [][HistoryNext]_vars

(***************************************************************************)
(* The note parts (endnotes.xml, footnotes.xml).  A note is the sequence   *)
(* of its paragraphs, a paragraph the sequence of its child elements.      *)
(***************************************************************************)
Child(tag, ref, italic, text, style) ==
  [tag |-> tag, ref |-> ref, italic |-> italic, text |-> text, style |-> style]

\* <w:pPr> with a paragraph style
PPr(style) == Child("pPr", FALSE, FALSE, <<>>, style)

\* <w:r> holding <w:endnoteRef/> or <w:footnoteRef/>
RefRun(style) == Child("r", TRUE, FALSE, <<>>, style)

\* <w:r> holding <w:t>
TextRun(text, italic) == Child("r", FALSE, italic, text, "")

\* any other child of a paragraph
Hyperlink == Child("hyperlink", FALSE, FALSE, <<"see">>, "")

ReferenceStyle(note_type) == IF note_type = "footnote" THEN "FootnoteReference" ELSE "EndnoteReference"

TextStyle(note_type) == IF note_type = "footnote" THEN "FootnoteText" ELSE "EndnoteText"

HasToken(s, t, from) == \E j \in from..Len(s) : s[j] = t

FirstFrom(s, t, from) == CHOOSE j \in from..Len(s) : s[j] = t /\ \A k \in from..(j - 1) : s[k] # t

\* re.split(r'(<i>.*?</i>)', ...) and the loop that builds one run per part
RECURSIVE ContentRuns(_)
ContentRuns(s) ==
  IF s = <<>> THEN <<>>
  ELSE IF HasToken(s, "<i>", 1) /\ HasToken(s, "</i>", FirstFrom(s, "<i>", 1) + 1)
    THEN LET i == FirstFrom(s, "<i>", 1)
             j == FirstFrom(s, "</i>", i + 1)
         IN  (IF i > 1 THEN <<TextRun(SubSeq(s, 1, i - 1), FALSE)>> ELSE <<>>)
               \o <<TextRun(SubSeq(s, i + 1, j - 1), TRUE)>>
               \o ContentRuns(SubSeq(s, j + 1, Len(s)))
  ELSE <<TextRun(s, FALSE)>>

\* the children write_endnote keeps: pPr and every run that holds the marker
KeptChild(child) == child.tag = "pPr" \/ (child.tag = "r" /\ child.ref)

\* the body of write_endnote / write_footnote once the target note is found
write_note(note, note_type, new_content) ==
  IF note = <<>> THEN <<ContentRuns(new_content)>>
  ELSE LET kept == SelectSeq(note[1], KeptChild)
           para == IF \E i \in 1..Len(kept) : kept[i].tag = "r" THEN kept
                   ELSE kept \o <<RefRun(ReferenceStyle(note_type))>>
       IN  <<para \o ContentRuns(new_content)>> \o Tail(note)

\* html_to_word_xml
html_to_word_xml(html, note_type) == <<(<<PPr(TextStyle(note_type))>> \o ContentRuns(html))>>

OtherChildren == {RefRun("NoteRef"), TextRun(<<"old">>, FALSE), Hyperlink}

\* paragraphs as Word writes them: pPr, when present, is the first child
Paragraphs ==
  {pPr \o rest : pPr \in {<<>>, <<PPr("Quote")>>}, rest \in SeqsUpTo(OtherChildren, MaxChildren)}

StandardNote == <<(<<PPr("NoteText"), RefRun("NoteRef"), TextRun(<<"old">>, FALSE)>>)>>

NoteStructures ==
  {<<>>} \cup {<<para>> : para \in Paragraphs} \cup {<<para>> \o StandardNote : para \in Paragraphs}

XmlKeys == {<<"endnote", 1>>, <<"endnote", 2>>, <<"footnote", 1>>}

Contents == {<<"Smith", ",", " ", "<i>", "Widgets", "</i>", ".">>, <<"Ibid", ".">>, <<"<i>", "a">>}

XmlInit ==
  /\ DocIdle /\ RouterIdle /\ LibIdle /\ ai_available = FALSE
  /\ \E subject \in XmlKeys, note \in NoteStructures :
       xml = [k \in XmlKeys |-> IF k = subject THEN note ELSE StandardNote]
  /\ xml_before = xml
  /\ wop = NoOp
  /\ writes = 0
  /\ LinksIdle
  /\ TextIdle
  /\ MultiIdle
  /\ PackageIdle

\* write_endnote / write_footnote: False when no note has the id
WriteNote ==
  /\ writes < MaxWrites
  /\ \E note_type \in {"endnote", "footnote"}, note_id \in 1..3, new_content \in Contents :
       /\ xml_before' = xml
       /\ IF <<note_type, note_id>> \in DOMAIN xml
          THEN /\ xml' = [xml EXCEPT ![<<note_type, note_id>>] = write_note(@, note_type, new_content)]
               /\ wop' = [op |-> "write", note_type |-> note_type, note_id |-> note_id,
                          content |-> new_content, ok |-> TRUE]
          ELSE /\ xml' = xml
               /\ wop' = [op |-> "write", note_type |-> note_type, note_id |-> note_id,
                          content |-> new_content, ok |-> FALSE]
  /\ writes' = writes + 1
  /\ UNCHANGED docvars
  /\ UNCHANGED routervars
  /\ UNCHANGED libvars
  /\ UNCHANGED linkvars
  /\ UNCHANGED textvars
  /\ UNCHANGED multivars
  /\ UNCHANGED pkgvars

\* update_document_note: the endnote with the id, else the footnote with the
\* id, gets the paragraph html_to_word_xml builds; the texts of this model
\* hold no URL, so the closing LinkActivator pass finds nothing to wrap
UpdateNote ==
  /\ writes < MaxWrites
  /\ \E note_id \in 1..3, new_html \in Contents :
       LET note_type == IF <<"endnote", note_id>> \in DOMAIN xml THEN "endnote" ELSE "footnote"
       IN  /\ xml_before' = xml
           /\ xml' = IF <<note_type, note_id>> \in DOMAIN xml
                     THEN [xml EXCEPT ![<<note_type, note_id>>] = html_to_word_xml(new_html, note_type)]
                     ELSE xml
           /\ wop' = [op |-> "update", note_type |-> note_type, note_id |-> note_id,
                      content |-> new_html, ok |-> <<note_type, note_id>> \in DOMAIN xml]
  /\ writes' = writes + 1
  /\ UNCHANGED docvars
  /\ UNCHANGED routervars
  /\ UNCHANGED libvars
  /\ UNCHANGED linkvars
  /\ UNCHANGED textvars
  /\ UNCHANGED multivars
  /\ UNCHANGED pkgvars

XmlNext == WriteNote \/ UpdateNote

SpecXml == XmlInit /\ [][XmlNext]_vars

(***************************************************************************)
(* LinkActivator.  An XML part is a sequence of pieces of known length in  *)
(* characters: markup, the opening and closing tag of a w:hyperlink        *)
(* element, the instruction run of a HYPERLINK field, and w:t text nodes.  *)
(* A URL is its length without trailing punctuation, the number of         *)
(* ampersands in it and the number of trailing punctuation characters.     *)
(***************************************************************************)
WindowHyperlinkElement == 500
WindowFieldCode == 200
LenWord == 9
LenFieldBegin == 45
LenInstrOpen == 40
LenInstrQuote == 2
LenInstrClose == 22
LenFieldSeparate == 48
LenDisplayOpen == 66
LenTOpenPlain == 5
LenTClose == 6
LenRunClose == 6
LenRunOpen == 5
LenFieldEnd == 43
LenAmpEscape == 4
LenHyperlinkOpen == 12
LenHyperlinkClose == 14

Url(len, amps, trail) == [len |-> len, amps |-> amps, trail |-> trail]

NoUrl == Url(0, 0, 0)

Markup(len) == [k |-> "markup", len |-> len]

HOpen == [k |-> "hopen", len |-> LenHyperlinkOpen + 10]

HClose == [k |-> "hclose", len |-> LenHyperlinkClose]

\* <w:r><w:instrText xml:space="preserve"> HYPERLINK "url" </w:instrText></w:r>
Instr(url) == [k |-> "instr", url |-> url]

\* <w:t ...>before URL after [URL after]...</w:t>
TextNode(topen, before, url, after, more) ==
  [k |-> "t", topen |-> topen, before |-> before, url |-> url, after |-> after, more |-> more]

MatchedLen(url) == url.len + url.trail

RECURSIVE MoreLen(_)
MoreLen(more) ==
  IF more = <<>> THEN 0 ELSE MatchedLen(more[1].url) + more[1].after + MoreLen(Tail(more))

PieceLen(p) ==
  CASE p.k = "instr" -> LenInstrOpen + LenWord + LenInstrQuote + p.url.len + LenInstrClose
    [] p.k = "t" -> p.topen + p.before + MatchedLen(p.url) + p.after + MoreLen(p.more) + LenTClose
    [] OTHER -> p.len

\* match.start() of piece i
RECURSIVE Offset(_, _)
Offset(content, i) == IF i = 1 THEN 0 ELSE Offset(content, i - 1) + PieceLen(content[i - 1])

\* 'HYPERLINK' in context_before[-200:]
FieldCodeNear(content, i) ==
  \E j \in 1..(i - 1) :
    /\ content[j].k = "instr"
    /\ Offset(content, j) + LenInstrOpen >= Offset(content, i) - WindowFieldCode

\* occurrences of a tag of content[max(0, pos-500):pos]
CountInContext(content, i, kind) ==
  Cardinality({j \in 1..(i - 1) :
    content[j].k = kind /\ Offset(content, j) >= Offset(content, i) - WindowHyperlinkElement})

\* the two "skip" tests of replace_url
AlreadyLinked(content, i) ==
  \/ FieldCodeNear(content, i)
  \/ CountInContext(content, i, "hopen") > CountInContext(content, i, "hclose")

\* html.escape(clean_url): every ampersand grows into &amp;
Escaped(url) == Url(url.len + LenAmpEscape * url.amps, url.amps, 0)

\* _build_hyperlink_field
build_hyperlink_field(safe_url) ==
  << Markup(LenFieldBegin), Instr(safe_url), Markup(LenFieldSeparate), Markup(LenDisplayOpen),
     TextNode(LenTOpenPlain, 0, safe_url, 0, <<>>), Markup(LenRunClose), Markup(LenFieldEnd) >>

\* replace_url for a text node that is not skipped
replace_url(node) ==
  LET after_len == node.url.trail + node.after + MoreLen(node.more)
  IN  (IF node.before > 0
       THEN <<TextNode(node.topen, node.before, NoUrl, 0, <<>>), Markup(LenRunClose)>>
       ELSE <<Markup(LenRunClose)>>)
      \o build_hyperlink_field(Escaped(node.url))
      \o (IF after_len > 0
          THEN << Markup(LenRunOpen),
                  IF node.more = <<>>
                  THEN TextNode(node.topen, node.url.trail + node.after, NoUrl, 0, <<>>)
                  ELSE TextNode(node.topen, node.url.trail + node.after, node.more[1].url,
                                node.more[1].after, Tail(node.more)) >>
          ELSE <<Markup(LenRunOpen)>>)

\* re.sub(pattern, replace_url, content): the text nodes that hold a URL
RECURSIVE SubFrom(_, _)
SubFrom(content, i) ==
  IF i > Len(content) THEN <<>>
  ELSE (IF content[i].k = "t" /\ content[i].url # NoUrl /\ ~AlreadyLinked(content, i)
        THEN replace_url(content[i])
        ELSE <<content[i]>>)
       \o SubFrom(content, i + 1)

process_xml_file(content) == SubFrom(content, 1)

UrlLengths == {20, 53, 54, 120}

Urls == {Url(len, amps, trail) : len \in UrlLengths, amps \in {0, 1}, trail \in {0, 1}}

\* what may follow the first URL of a text node: nothing, or a second URL
MoreUrls == {<<>>, <<[url |-> Url(20, 0, 1), after |-> 0]>>}

\* a paragraph with one run whose text node holds one URL or two, bare or
\* inside a w:hyperlink element
Packages ==
  {<<Markup(700)>> \o open \o <<Markup(LenRunOpen), TextNode(26, before, url, after, more),
     Markup(LenRunClose)>> \o (IF open = <<>> THEN <<>> ELSE <<HClose>>) \o <<Markup(6)>> :
     open \in {<<>>, <<HOpen>>}, before \in {0, 5, 300}, url \in Urls, after \in {0, 3},
     more \in MoreUrls}

LinksInit ==
  /\ DocIdle /\ RouterIdle /\ LibIdle /\ XmlIdle /\ TextIdle /\ MultiIdle /\ PackageIdle /\ ai_available = FALSE
  /\ pkg \in Packages
  /\ pkg_before = pkg
  /\ passes = 0

\* LinkActivator.process on the package the last pass returned
ActivateLinks ==
  /\ passes < MaxPasses
  /\ pkg_before' = pkg
  /\ pkg' = process_xml_file(pkg)
  /\ passes' = passes + 1
  /\ UNCHANGED docvars
  /\ UNCHANGED routervars
  /\ UNCHANGED libvars
  /\ UNCHANGED xmlvars
  /\ UNCHANGED textvars
  /\ UNCHANGED multivars
  /\ UNCHANGED pkgvars

LinksNext == ActivateLinks

SpecLinks == LinksInit /\ [][LinksNext]_vars

(***************************************************************************)
(* Calls of the text functions on their own: is_ibid with                  *)
(* extract_ibid_page on a note text, urls_match on two URLs.               *)
(***************************************************************************)
IbidAlphabet == {".", ",", " ", "at", "p", "4", "-"}

\* the docstring examples of is_ibid and extract_ibid_page
IbidExamples ==
  { <<"ibid", ".">>,
    <<"ibid", ".", ",", " ", "4", "5">>,
    <<"Id", ".", " ", "at", " ", "7", "8", "9">>,
    <<"ibid", ".", ",", " ", "p", "p", ".", " ", "1", "2", "-", "1", "5">>,
    <<" ", "Ibid", ",", " ", "4", "5", " ">> }

\* a first token and up to MaxTextLen tokens after it
IbidTexts ==
  {<<w>> \o rest : w \in {"ibid", "Id", "x"}, rest \in SeqsUpTo(IbidAlphabet, MaxTextLen)}
    \cup IbidExamples

\* URLs of two paths, in two letter cases, with and without trailing slash and
\* query string; the empty URL
UrlTexts ==
  {<<"http", path>> \o slash \o query :
     path \in {"a", "A", "b"}, slash \in {<<>>, <<"/">>}, query \in {<<>>, <<"?", "q">>}}
    \cup {<<>>}

TextInit ==
  /\ DocIdle /\ RouterIdle /\ LibIdle /\ XmlIdle /\ LinksIdle /\ MultiIdle /\ PackageIdle /\ ai_available = FALSE
  /\ \/ fpc = "ibid" /\ arg1 \in IbidTexts /\ arg2 = <<>>
     \/ fpc = "urls" /\ arg1 \in UrlTexts /\ arg2 \in UrlTexts
  /\ fret = NoRet

\* is_ibid(text), then extract_ibid_page(text)
CallIbid ==
  /\ fpc = "ibid"
  /\ fret' = [accepted |-> is_ibid(arg1), page |-> extract_ibid_page(arg1)]
  /\ fpc' = "ibid_done"
  /\ UNCHANGED <<arg1, arg2>>
  /\ UNCHANGED docvars
  /\ UNCHANGED routervars
  /\ UNCHANGED libvars
  /\ UNCHANGED xmlvars
  /\ UNCHANGED linkvars
  /\ UNCHANGED multivars
  /\ UNCHANGED pkgvars

\* normalize_url on each URL, and urls_match(url1, url2)
CallUrls ==
  /\ fpc = "urls"
  /\ fret' = [norm1 |-> normalize_url(arg1), norm2 |-> normalize_url(arg2),
             match |-> urls_match(arg1, arg2)]
  /\ fpc' = "urls_done"
  /\ UNCHANGED <<arg1, arg2>>
  /\ UNCHANGED docvars
  /\ UNCHANGED routervars
  /\ UNCHANGED libvars
  /\ UNCHANGED xmlvars
  /\ UNCHANGED linkvars
  /\ UNCHANGED multivars
  /\ UNCHANGED pkgvars

TextNext == CallIbid \/ CallUrls

SpecText == TextInit /\ [][TextNext]_vars

(***************************************************************************)
(* The package operations: process_document, update_document_note and      *)
(* LinkActivator.process, each from the unpacking of the archive to its    *)
(* end.  A part is what the properties below tell about its bytes: its     *)
(* line ends, whether its text holds a bare URL, whether it is well-formed *)
(* XML, whether a note was written into it and whether a URL in it was     *)
(* made a field.  tempdirs holds the temporary directories that exist.     *)
(***************************************************************************)
Part(eol, url, wellformed) ==
  [eol |-> eol, url |-> url, wellformed |-> wellformed, written |-> FALSE, linked |-> FALSE]

\* bytes that zipfile.ZipFile cannot open
BadArchive == [ok |-> FALSE, parts |-> NoTree]

Archive(parts) == [ok |-> TRUE, parts |-> parts]

LineEnds == {"lf", "crlf"}

\* word/document.xml and word/styles.xml, with or without word/endnotes.xml
Archives ==
  {BadArchive}
    \cup {Archive([p \in {"document", "styles"} |->
                     IF p = "document" THEN Part(e, u, TRUE) ELSE Part("crlf", FALSE, TRUE)]) :
            e \in LineEnds, u \in BOOLEAN}
    \cup {Archive([p \in {"document", "styles", "endnotes"} |->
                     CASE p = "document" -> Part(e, FALSE, TRUE)
                       [] p = "endnotes" -> Part("lf", u, w)
                       [] OTHER -> Part("crlf", FALSE, TRUE)]) :
            e \in LineEnds, u \in BOOLEAN, w \in BOOLEAN}

Operations == {"process_document", "update_document_note", "LinkActivator.process"}

\* the parts LinkActivator.process looks for
target_files == {"document", "endnotes", "footnotes"}

\* _process_xml_file: the part is read as text, the URLs of its text nodes are
\* replaced and the text is written back; reading turns every line end into
\* "\n" and writing turns "\n" into os.linesep
process_part(part, linesep) ==
  [part EXCEPT !.eol = linesep, !.linked = part.linked \/ part.url, !.url = FALSE]

\* the loop over target_files
activate_parts(parts, linesep) ==
  [p \in DOMAIN parts |-> IF p \in target_files THEN process_part(parts[p], linesep) ELSE parts[p]]

Ended(kind, parts, note_results) ==
  [kind |-> kind, parts |-> parts, results |-> note_results]

PackageInit ==
  /\ DocIdle /\ RouterIdle /\ LibIdle /\ XmlIdle /\ LinksIdle /\ TextIdle /\ MultiIdle
  /\ ai_available = FALSE
  /\ \E op \in Operations, archive \in Archives, add_links \in BOOLEAN, linesep \in LineEnds :
       /\ op # "process_document" => add_links
       /\ job = [op |-> op, archive |-> archive, add_links |-> add_links, linesep |-> linesep]
  /\ stage = "start"
  /\ tree = NoTree
  /\ tempdirs = {}
  /\ outcome = NoJob

PackageFrame ==
  /\ UNCHANGED job
  /\ UNCHANGED docvars
  /\ UNCHANGED routervars
  /\ UNCHANGED libvars
  /\ UNCHANGED xmlvars
  /\ UNCHANGED linkvars
  /\ UNCHANGED textvars
  /\ UNCHANGED multivars

\* WordDocumentProcessor.__init__: mkdtemp, then extractall; a bad archive
\* raises out of process_document
OpenProcessor ==
  /\ stage = "start"
  /\ job.op = "process_document"
  /\ tempdirs' = tempdirs \cup {"processor"}
  /\ IF job.archive.ok
     THEN /\ tree' = job.archive.parts
          /\ stage' = "notes"
          /\ UNCHANGED outcome
     ELSE /\ stage' = "ended"
          /\ outcome' = Ended("raised", NoTree, <<>>)
          /\ UNCHANGED tree
  /\ PackageFrame

\* get_endnotes and the loop over the notes: a note part that is missing or
\* cannot be parsed gives no notes; a note that is found may be written
ProcessNotes ==
  /\ stage = "notes"
  /\ \E wrote \in BOOLEAN :
       LET readable == "endnotes" \in DOMAIN tree /\ tree["endnotes"].wellformed
       IN  /\ wrote => readable
           /\ tree' = IF wrote THEN [tree EXCEPT !["endnotes"].written = TRUE] ELSE tree
           /\ outcome' = Ended("running", NoTree, IF readable THEN <<"note 1">> ELSE <<>>)
  /\ stage' = "save"
  /\ UNCHANGED tempdirs
  /\ PackageFrame

\* save_to_buffer: the walk over the working directory; an OSError raises out
\* of process_document before processor.cleanup()
SaveToBuffer ==
  /\ stage = "save"
  /\ \E saved \in BOOLEAN :
       IF saved
       THEN /\ stage' = IF job.add_links THEN "links" ELSE "cleanup"
            /\ UNCHANGED outcome
       ELSE /\ stage' = "ended"
            /\ outcome' = Ended("raised", NoTree, <<>>)
  /\ UNCHANGED <<tree, tempdirs>>
  /\ PackageFrame

\* LinkActivator.process, first half: mkdtemp and extractall; a bad archive
\* goes to the except branch, which returns the input buffer, and to finally
ActivatorUnpack ==
  /\ \/ stage = "links"
     \/ stage = "start" /\ job.op = "LinkActivator.process"
  /\ IF stage = "start" /\ ~job.archive.ok
     THEN /\ stage' = "ended"
          /\ outcome' = Ended("returned", job.archive.parts, <<>>)
          /\ UNCHANGED <<tree, tempdirs>>
     ELSE /\ tempdirs' = tempdirs \cup {"activator"}
          /\ tree' = IF stage = "start" THEN job.archive.parts ELSE tree
          /\ stage' = "activate"
          /\ UNCHANGED outcome
  /\ PackageFrame

\* LinkActivator.process, second half: the target files, the repackaging,
\* the except branch (the input buffer is returned) and finally: rmtree
ActivatorFinish ==
  /\ stage = "activate"
  /\ \E failed \in BOOLEAN :
       tree' = IF failed THEN tree ELSE activate_parts(tree, job.linesep)
  /\ tempdirs' = tempdirs \ {"activator"}
  /\ IF job.op = "process_document"
     THEN stage' = "cleanup" /\ UNCHANGED outcome
     ELSE stage' = "ended" /\ outcome' = Ended("returned", tree', <<>>)
  /\ PackageFrame

\* processor.cleanup() and the return of process_document
CleanupAndReturn ==
  /\ stage = "cleanup"
  /\ tempdirs' = tempdirs \ {"processor"}
  /\ stage' = "ended"
  /\ outcome' = Ended("returned", tree, outcome.results)
  /\ UNCHANGED tree
  /\ PackageFrame

\* update_document_note up to the call of LinkActivator.process: mkdtemp,
\* extractall, the replacement in the note part read as text, the
\* repackaging and rmtree; every exception goes to the except branch, which
\* returns doc_bytes
UpdateNotePart ==
  /\ stage = "start"
  /\ job.op = "update_document_note"
  /\ \E found \in BOOLEAN, repackaged \in BOOLEAN :
       /\ found => (job.archive.ok /\ "endnotes" \in DOMAIN job.archive.parts)
       /\ IF job.archive.ok /\ repackaged
          THEN /\ tree' = IF found THEN [job.archive.parts EXCEPT !["endnotes"].written = TRUE]
                          ELSE job.archive.parts
               /\ tempdirs' = tempdirs
               /\ stage' = "links"
               /\ UNCHANGED outcome
          ELSE /\ tempdirs' = tempdirs \cup {"update"}
               /\ stage' = "ended"
               /\ outcome' = Ended("returned", job.archive.parts, <<>>)
               /\ UNCHANGED tree
  /\ PackageFrame

PackageNext ==
  \/ OpenProcessor
  \/ ProcessNotes
  \/ SaveToBuffer
  \/ ActivatorUnpack
  \/ ActivatorFinish
  \/ CleanupAndReturn
  \/ UpdateNotePart

SpecPackage == PackageInit /\ [][PackageNext]_vars

Init == DocInit /\ RouterIdle /\ LibIdle /\ XmlIdle /\ LinksIdle /\ TextIdle /\ MultiIdle /\ PackageIdle /\ ai_available = FALSE

Next == DocNext

Spec == Init /\ [][Next]_vars

SpecRouter == RouterInit /\ [][RouterNext]_vars

(***************************************************************************)
(* Properties of process_document.                                         *)
(***************************************************************************)
\* the pair get_citation_with_timeout returned for note i; None for an
\* explicit ibid
Got(i) == IF calls[i] = NotCalled THEN Pair(NoneMeta, NoneFormatted)
          ELSE get_citation_with_timeout(calls[i])

ResolvedTo(i) == Got(i).metadata

Resolves(i) == calls[i] # NotCalled /\ ResolvedTo(i) # NoneMeta /\ ~Falsy(Got(i).formatted)

\* the URL of the citation that is History.previous when note i is processed:
\* the last earlier note rendered Full or Short
AddedBefore(i) == {j \in 1..(i - 1) : results[j].success /\ results[j].citation_form \in {"full", "short"}}

PreviousUrlAt(i) ==
  IF AddedBefore(i) = {} THEN <<>>
  ELSE MetaUrl(results[CHOOSE j \in AddedBefore(i) : \A k \in AddedBefore(i) : k <= j].metadata)

\* the URL process_single_note compares for note i
NoteUrl(i) == CurrentUrl(ResolvedTo(i), AllNotes[i].text)

\* notes i, i+1, i+2 are endnotes: i resolves to a keyed source no earlier
\* note resolved to, i+1 is an explicit ibid with a page, i+2 resolves to the
\* same source
C1_Case(i) ==
  /\ i + 2 <= Len(results)
  /\ i + 2 <= Len(endnotes)
  /\ Resolves(i)
  /\ generate_source_key(ResolvedTo(i)) # NoKey
  /\ \A j \in 1..(i - 1) :
       Resolves(j) => generate_source_key(ResolvedTo(j)) # generate_source_key(ResolvedTo(i))
  /\ is_ibid(endnotes[i + 1].text)
  /\ extract_ibid_page(endnotes[i + 1].text) # <<>>
  /\ Resolves(i + 2)
  /\ ResolvedTo(i + 2) = ResolvedTo(i)

IsIbidWithPage(i) ==
  /\ results[i].success
  /\ results[i].citation_form = "ibid"
  /\ results[i].formatted = format_ibid(extract_ibid_page(endnotes[i].text))

StepsNote == idx' = idx + 1

StepResult == results'[idx']

StepGot == IF calls'[idx'] = NotCalled THEN Pair(NoneMeta, NoneFormatted)
           ELSE get_citation_with_timeout(calls'[idx'])

\* C2: a resolved note that is not an explicit ibid gets Ibid when its URL is
\* non-empty and matches the previous citation's URL, else Ibid when it is the
\* previous source, else Short when the source was cited before, else Full.
C2_FormPriority ==
  [][(/\ StepsNote
      /\ ~is_ibid(StepResult.original)
      /\ StepGot.metadata # NoneMeta /\ ~Falsy(StepGot.formatted)
      /\ StepResult.success)
     => StepResult.citation_form =
          (IF StepResult.url # <<>> /\ get_previous_url(history) # <<>>
                /\ normalize_url(StepResult.url) = normalize_url(get_previous_url(history))
             THEN "ibid"
           ELSE IF is_same_as_previous(history, StepGot.metadata) THEN "ibid"
           ELSE IF has_been_cited_before(history, StepGot.metadata) THEN "short"
           ELSE "full")]_vars

\* a resolved note was rendered Short although its URL is not empty: neither
\* of the two Ibid rules applied
C2_Witness ==
  \E i \in 1..Len(results) :
    /\ Resolves(i) /\ results[i].success /\ results[i].citation_form = "short"
    /\ results[i].url # <<>>

\* C3 as stated: every successful decision calls History.add once, and no
\* History entry holds an ibid or short-form text.
C3_HistoryHoldsFullForm ==
  /\ history.note_counter = Cardinality({i \in 1..Len(results) : results[i].success})
  /\ history.previous # NoEntry => history.previous.formatted.form = "full"
  /\ \A kv \in history.all_sources : kv[2].formatted.form = "full"

\* C4: one ProcessedCitation per note read, in the order read (endnotes, then
\* footnotes), whatever the per-note outcomes; the run goes on after a failed
\* note and ends with a result for every note.
C4_OneResultPerNote ==
  /\ Len(results) = idx
  /\ idx <= Len(AllNotes)
  /\ \A i \in 1..Len(results) : results[i].original = AllNotes[i].text
  /\ dpc = "done" => Len(results) = Len(AllNotes)

\* a finished run of endnotes and footnotes in which a note raised and a later
\* note succeeded
C4_Witness ==
  /\ dpc = "done"
  /\ Len(footnotes) > 0
  /\ \E i, k \in 1..Len(results) :
       /\ i < k
       /\ results[i].error = "exception"
       /\ results[k].success

\* C5: an explicit ibid with no previous citation in History gives a failed
\* ProcessedCitation with a cause and the original text; nothing is written,
\* History is unchanged, and the run goes on.
C5_IbidWithoutAntecedent ==
  [][(/\ StepsNote
      /\ is_ibid(AllNotes[idx'].text)
      /\ history.previous = NoEntry)
     => /\ StepResult.success = FALSE
        /\ StepResult.error # ""
        /\ StepResult.formatted = Raw(AllNotes[idx'].text)
        /\ body' = body
        /\ history' = history
        /\ dpc' = "notes"]_vars

C5_Witness ==
  \E i, j \in 1..Len(results) :
    /\ i < j
    /\ is_ibid(AllNotes[i].text)
    /\ results[i].error = "ibid reference but no previous citation found"
    /\ results[j].success

\* C6: when the resolution of a non-ibid note yields no metadata (the router
\* returns nothing, raises or times out), the note's result is a failure with
\* null metadata and the original text; nothing is written and History is
\* unchanged.
C6_ResolutionFailure ==
  [][(/\ StepsNote
      /\ ~is_ibid(AllNotes[idx'].text)
      /\ \/ calls'[idx'].kind \in {"raised", "timeout"}
         \/ calls'[idx'].metadata = NoneMeta)
     => /\ StepResult.success = FALSE
        /\ StepResult.metadata = NoneMeta
        /\ StepResult.formatted = Raw(AllNotes[idx'].text)
        /\ body' = body
        /\ history' = history]_vars

\* after a citation was recorded, a call raised and a call timed out
C6_Witness ==
  \E i, j, k \in 1..Len(calls) :
    /\ i < j /\ i < k
    /\ results[i].success /\ results[i].citation_form = "full"
    /\ calls[j] = Raised /\ ~results[j].success
    /\ calls[k] = TimedOut /\ ~results[k].success

(***************************************************************************)
(* Claims about the router.                                                *)
(***************************************************************************)
RouterSucceeded == rpc = "done" /\ rret.kind = "returned" /\ rret.metadata # NoneMeta

\* a step in which route_citation is entered
CallStarts ==
  rpc \in {"idle", "done"}
  /\ (rpc' # rpc \/ rret' # rret \/ rquery' # rquery \/ invoked' # invoked \/ called' # called)

\* a step in which the parallel searches of _route_journal come to an end
FanoutEnds == rpc = "fanout" /\ (rpc' = "done" \/ (rpc' = "fanout" /\ rcont' # rcont))

(* C7: metadata that route_citation returns as a success satisfies the     *)
(* minimum-viable-data rule, whatever route produced it.                   *)
C7_SuccessHasMinimumData == RouterSucceeded => has_minimum_data(rret.metadata)

(* C8: a call of route_citation that repeats the query of the successful   *)
(* call before it returns the same formatted string and reaches no         *)
(* provider.                                                               *)
C8_RepeatedCallIsCached ==
  [][(RouterSucceeded /\ CallStarts /\ rquery' = rquery)
       => (rpc' = "done" /\ ~invoked' /\ rret'.kind = "returned"
           /\ rret'.formatted = rret.formatted)]_vars

(* C9: route_citation never raises; when every provider fails it returns   *)
(* no metadata and no formatted text.                                      *)
C9_NeverRaises ==
  rpc = "done" => /\ rret.kind = "returned"
                  /\ (rret.metadata = NoneMeta => Falsy(rret.formatted))

(* C10: when the parallel searches end after at least one qualifying       *)
(* result was collected, route_citation returns a qualifying result: the   *)
(* first collected one that carries a DOI, else the first collected one.   *)
C10_FanoutKeepsArrivedResult ==
  [][(FanoutEnds /\ collected # <<>>)
       => (rpc' = "done" /\ rret' = RouterReturn(BestResult(collected)))]_vars

RouterFailed == rpc = "done" /\ rret.kind = "returned" /\ rret.metadata = NoneMeta

JournalCalls == {"get_by_id", "searches"}

(* C11: when the deadline of the parallel searches passes with every       *)
(* engine still running, the timeout is not raised to the caller, and      *)
(* unless a fallback follows route_citation returns no metadata and no     *)
(* text as an ordinary return value.                                       *)
C11_AllTimedOutReturnsNothing ==
  [][(FanoutEnds /\ running = Engines)
       => /\ rret'.kind # "raised"
          /\ (rcont # "ai" => (rpc' = "done" /\ rret'.metadata = NoneMeta
                               /\ Falsy(rret'.formatted)))]_vars

(* C12: a call for a book query that ends in failure has consulted the     *)
(* journal providers after the book lookup.                                *)
C12_BookFallsThroughToJournal ==
  (RouterFailed /\ rquery.dtype = "book" /\ ~rquery.legal /\ ~rquery.url)
    => \E i \in 1..Len(called) : called[i].call \in JournalCalls

\* the query is in the unknown bucket and the AI classifier is unavailable
\* or answered unknown
UnknownUnclassified ==
  /\ rpc \in {"fanout", "done"}
  /\ Strip(rquery.text) # <<>>
  /\ rquery.dtype = "unknown" /\ ~rquery.legal /\ ~rquery.url
  /\ (ai_available => (called # <<>> /\ called[1] = [call |-> "classify_with_ai", yields |-> FALSE]))

\* the provider calls made after the classification
FallbackCalls == IF ai_available THEN Tail(called) ELSE called

(* C13: for an unknown query that the AI classifier did not classify, the  *)
(* book lookup is the first call, the journal providers are called only    *)
(* after a book lookup that gave nothing, and the returned metadata is     *)
(* that of the first of the two that gave any.                             *)
C13_UnknownTriesBookThenJournal ==
  UnknownUnclassified =>
    /\ FallbackCalls # <<>>
    /\ FallbackCalls[1].call = "books"
    /\ \A i \in 2..Len(FallbackCalls) :
         ~FallbackCalls[1].yields /\ FallbackCalls[i].call \in JournalCalls
    /\ (rpc = "fanout" => ~FallbackCalls[1].yields)
    /\ (rpc = "done" /\ rret.kind = "returned")
         => /\ (rret.metadata # NoneMeta) = FallbackCalls[Len(FallbackCalls)].yields
            /\ (FallbackCalls[1].yields => rret.metadata.citation_type = "book")
            /\ (rret.metadata # NoneMeta /\ ~FallbackCalls[1].yields
                  => rret.metadata.citation_type = "journal")

C13_Witness ==
  /\ UnknownUnclassified
  /\ RouterSucceeded
  /\ Len(FallbackCalls) = 2
  /\ FallbackCalls[2] = [call |-> "searches", yields |-> TRUE]
  /\ rret.metadata.citation_type = "journal"

(***************************************************************************)
(* Claims about source keys and the citation history.                      *)
(***************************************************************************)
\* the record has a DOI whose normalized form is not empty
HasDoi(m) == m.doi # <<>> /\ normalize_doi(m.doi) # <<>>

LowerStripped(s) == Strip(LowerSeq(s))

(* C14: the key of a record is that of the first rule that applies: its    *)
(* normalized DOI, else its normalized URL, else case name and citation    *)
(* when both are present, else its title with the first author if any,     *)
(* else its case name alone, else null; a record with a DOI and a URL is   *)
(* keyed by the DOI and nothing of the URL.                                *)
C14_KeyPriority ==
  kpc = "keyed" =>
    IF probe = NoneMeta THEN probe_key = NoKey
    ELSE
      /\ HasDoi(probe) => probe_key = <<"doi:">> \o normalize_doi(probe.doi)
      /\ (~HasDoi(probe) /\ probe.url # <<>>)
           => probe_key = <<"url:">> \o normalize_url(probe.url)
      /\ (~HasDoi(probe) /\ probe.url = <<>> /\ probe.case_name # <<>> /\ probe.citation # <<>>)
           => probe_key = <<"legal:">> \o LowerStripped(probe.case_name) \o <<"|">>
                            \o LowerStripped(probe.citation)
      /\ (~HasDoi(probe) /\ probe.url = <<>> /\ ~(probe.case_name # <<>> /\ probe.citation # <<>>)
            /\ probe.title # <<>>)
           => /\ Head(probe_key) = "title:"
              /\ IF probe.authors = <<>>
                 THEN Tail(probe_key) = LowerStripped(probe.title)
                 ELSE Tail(probe_key) = LowerStripped(probe.title) \o <<"|author:">>
                                          \o LowerStripped(probe.authors[1])
      /\ (~HasDoi(probe) /\ probe.url = <<>> /\ probe.title = <<>> /\ probe.citation = <<>>
            /\ probe.case_name # <<>>)
           => probe_key = <<"case:">> \o LowerStripped(probe.case_name)
      /\ (~HasDoi(probe) /\ probe.url = <<>> /\ probe.title = <<>> /\ probe.case_name = <<>>)
           => probe_key = NoKey
      /\ (HasDoi(probe) /\ probe.url # <<>>) => ~Contains(probe_key, "url:")

C14_Witness ==
  /\ kpc = "keyed"
  /\ probe # NoneMeta
  /\ probe.doi = <<"doi:", "D1">> /\ probe.url = <<"http", "A", "/">>
  /\ probe_key = <<"doi:", "d1">>

\* the metadata of the last add call
LastAdded == adds[Len(adds)].metadata

KeyOfAdd(i) == generate_source_key(adds[i].metadata)

\* the entry the i-th add call built
EntryOfAdd(i) == CitationHistoryEntry(adds[i].metadata, adds[i].formatted, KeyOfAdd(i), i)

\* the first add call whose record has key k
FirstWithKey(k) ==
  CHOOSE i \in 1..Len(adds) : KeyOfAdd(i) = k /\ \A j \in 1..(i - 1) : KeyOfAdd(j) # k

(* C15: after add(m1), for every m2: when the keys of m1 and m2 are equal  *)
(* and not null both is_same_as_previous(m2) and has_been_cited_before(m2) *)
(* are true; when the key of m2 is null both are false; when the key of m1 *)
(* is null is_same_as_previous(m2) is false, and so is                     *)
(* has_been_cited_before(m2) in a history that holds m1 alone; all this    *)
(* also for m2 the very record m1.                                         *)
C15_KeyEqualityDecides ==
  adds # <<>> =>
    \A m2 \in AddPool \cup {NoneMeta} :
      LET key1 == generate_source_key(LastAdded)
          key2 == generate_source_key(m2)
      IN  /\ (key1 # NoKey /\ key1 = key2)
                => (is_same_as_previous(history, m2) /\ has_been_cited_before(history, m2))
          /\ key2 = NoKey
                => (~is_same_as_previous(history, m2) /\ ~has_been_cited_before(history, m2))
          /\ key1 = NoKey => ~is_same_as_previous(history, m2)
          /\ (key1 = NoKey /\ Len(adds) = 1) => ~has_been_cited_before(history, m2)

C15_Witness ==
  /\ Len(adds) = 1
  /\ LastAdded = MArticle
  /\ is_same_as_previous(history, MArticleMirror)
  /\ has_been_cited_before(history, MArticleMirror)

(* C16: after any sequence of add calls, previous is the entry of the last *)
(* call and all_sources holds, for each key that is not null among the     *)
(* records added, exactly the entry of the first call with that key.       *)
C16_FirstWriteWins ==
  /\ history.previous = IF adds = <<>> THEN NoEntry ELSE EntryOfAdd(Len(adds))
  /\ SourceKeys(history) = {KeyOfAdd(i) : i \in 1..Len(adds)} \ {NoKey}
  /\ \A kv \in history.all_sources : kv[2] = EntryOfAdd(FirstWithKey(kv[1]))
  /\ Cardinality(history.all_sources) = Cardinality(SourceKeys(history))

C16_Witness ==
  /\ Len(adds) = 3
  /\ adds[1].metadata = MArticle
  /\ adds[2].metadata = MBook
  /\ adds[3].metadata = MArticleMirror
  /\ history.previous.metadata = MArticleMirror
  /\ <<generate_source_key(MArticle), EntryOfAdd(1)>> \in history.all_sources

(***************************************************************************)
(* Claims about the note parts.                                            *)
(***************************************************************************)
WrittenKey == <<wop.note_type, wop.note_id>>

IsPPr(child) == child.tag = "pPr"

IsMarkerRun(child) == child.tag = "r" /\ child.ref

IsContent(child) == ~IsPPr(child) /\ ~IsMarkerRun(child)

\* the paragraph-properties elements of the first paragraph of a note
PPrOf(note) == IF note = <<>> THEN <<>> ELSE SelectSeq(note[1], IsPPr)

MarkerRunsOf(note) == IF note = <<>> THEN <<>> ELSE SelectSeq(note[1], IsMarkerRun)

(* C17: after a successful write the first paragraph of the note holds the *)
(* paragraph properties it had, exactly one run with the reference marker, *)
(* and besides these the runs built from the new content, whatever the     *)
(* note held before.                                                       *)
C17_WriteKeepsOneMarker ==
  (wop.op = "write" /\ wop.ok) =>
    /\ xml[WrittenKey] # <<>>
    /\ PPrOf(xml[WrittenKey]) = PPrOf(xml_before[WrittenKey])
    /\ Len(MarkerRunsOf(xml[WrittenKey])) = 1
    /\ SelectSeq(xml[WrittenKey][1], IsContent) = ContentRuns(wop.content)

(* C19: after update_document_note on an existing note the note still      *)
(* holds its reference-marker run and its original paragraph properties,   *)
(* and every other note is as it was.                                      *)
C19_UpdateKeepsMarkerAndProperties ==
  (wop.op = "update" /\ wop.ok) =>
    /\ MarkerRunsOf(xml[WrittenKey]) # <<>>
    /\ PPrOf(xml[WrittenKey]) = PPrOf(xml_before[WrittenKey])
    /\ \A k \in XmlKeys \ {WrittenKey} : xml[k] = xml_before[k]

(* C18: in a run in which every write_endnote / write_footnote call        *)
(* reports False, no note is reported with success = true (a note that is  *)
(* not written back is one whose decision failed).                         *)
C18_FailedWriteIsNotSuccess ==
  fault = "disk" => \A i \in 1..Len(results) : ~results[i].success

(***************************************************************************)
(* Claims about LinkActivator.                                             *)
(***************************************************************************)
FieldCodes(content) == Cardinality({j \in 1..Len(content) : content[j].k = "instr"})

(* C20: a second pass of LinkActivator over the result of the first        *)
(* changes nothing, for every URL length and every place of the URL in its *)
(* text node: no URL is wrapped in a HYPERLINK field twice.                *)
C20_SecondPassChangesNothing ==
  passes >= 2 => (pkg = pkg_before /\ FieldCodes(pkg) <= 1)

(***************************************************************************)
(* Properties of the citation forms over a whole run of process_document.  *)
(***************************************************************************)
\* note i was rendered Ibid by the same-URL or the same-source rule
IbidByRule(i) ==
  /\ results[i].success
  /\ results[i].citation_form = "ibid"
  /\ ~is_ibid(AllNotes[i].text)

\* note i - 1 denotes the source note i resolved to
PrecedingNoteIsSameSource(i) ==
  /\ i > 1
  /\ results[i - 1].success
  /\ \/ sources_match(ResolvedTo(i), results[i - 1].metadata)
     \/ urls_match(NoteUrl(i), results[i - 1].url)

(* C26: a note is rendered Ibid by the same-source or same-URL rule only   *)
(* when the note immediately before it denotes the same source; a note     *)
(* that follows a note that failed to resolve is not rendered Ibid.        *)
C26_IbidOnlyAfterSameSource ==
  \A i \in 1..Len(results) : IbidByRule(i) => PrecedingNoteIsSameSource(i)

\* the notes rendered Full or Short so far
Added == {i \in 1..Len(results) : results[i].success /\ results[i].citation_form \in {"full", "short"}}

(* C29: once a note of a non-null source key was rendered Full, no later   *)
(* successful note that resolved to that key is rendered Full; the first   *)
(* successful note of a run is rendered Full.                              *)
C29_FullAtMostOncePerKey ==
  /\ \A i, j \in 1..Len(results) :
       (/\ i < j
        /\ results[i].success /\ results[i].citation_form = "full"
        /\ generate_source_key(results[i].metadata) # NoKey
        /\ results[j].success /\ Resolves(j)
        /\ generate_source_key(ResolvedTo(j)) = generate_source_key(results[i].metadata))
       => results[j].citation_form \in {"ibid", "short"}
  /\ \A i \in 1..Len(results) :
       (results[i].success /\ \A j \in 1..(i - 1) : ~results[j].success)
       => results[i].citation_form = "full"

\* a source rendered Full, then another, then the first again as Short, after
\* a failed first note
C29_Witness ==
  /\ Len(results) >= 3
  /\ \E i, j \in 1..Len(results) :
       /\ i < j
       /\ results[i].success /\ results[i].citation_form = "full"
       /\ results[j].success /\ results[j].citation_form = "short"
       /\ generate_source_key(results[i].metadata) # NoKey
       /\ generate_source_key(results[j].metadata) = generate_source_key(results[i].metadata)

\* the History entry the add of note i made
EntryOfNote(i) ==
  CitationHistoryEntry(results[i].metadata, results[i].formatted,
                       generate_source_key(results[i].metadata),
                       Cardinality({j \in Added : j <= i}))

(* C30: History holds exactly what the Full and Short decisions put there: *)
(* note_counter is their number, previous is the entry of the last of      *)
(* them, all_sources holds the entry of the first of them per non-null     *)
(* key; Ibid decisions and failed notes leave History as it was.           *)
C30_OnlyFullAndShortModifyHistory ==
  /\ history.note_counter = Cardinality(Added)
  /\ history.previous =
       (IF Added = {} THEN NoEntry
        ELSE EntryOfNote(CHOOSE i \in Added : \A j \in Added : j <= i))
  /\ history.all_sources =
       {<<generate_source_key(results[i].metadata), EntryOfNote(i)>> :
          i \in {k \in Added :
                   /\ generate_source_key(results[k].metadata) # NoKey
                   /\ \A j \in Added :
                        j < k => generate_source_key(results[j].metadata)
                                   # generate_source_key(results[k].metadata)}}

\* a Full note followed by an Ibid decision and a failed note
C30_Witness ==
  \E i, j, k \in 1..Len(results) :
    /\ i < j /\ i < k
    /\ results[i].success /\ results[i].citation_form = "full"
    /\ results[j].success /\ results[j].citation_form = "ibid"
    /\ ~results[k].success
    /\ history.note_counter < Len(results)

(***************************************************************************)
(* Claims about the text functions.                                        *)
(***************************************************************************)
\* text without surrounding spaces and without one final "."
WithoutFinalDot(text) ==
  LET cleaned == Strip(text)
  IN  IF cleaned # <<>> /\ cleaned[Len(cleaned)] = "." THEN SubSeq(cleaned, 1, Len(cleaned) - 1)
      ELSE cleaned

\* the digits and dashes that end the text
RECURSIVE TrailingPage(_)
TrailingPage(s) ==
  IF s # <<>> /\ (IsDigit(s[Len(s)]) \/ IsDash(s[Len(s)]))
  THEN Append(TrailingPage(SubSeq(s, 1, Len(s) - 1)), s[Len(s)])
  ELSE <<>>

\* a number, or a number, a dash and a number
WellFormedPage(p) ==
  /\ p # <<>>
  /\ IsDigit(p[1]) /\ IsDigit(p[Len(p)])
  /\ \A i \in 1..Len(p) : IsDigit(p[i]) \/ IsDash(p[i])
  /\ Cardinality({i \in 1..Len(p) : IsDash(p[i])}) <= 1

(* C23: for a text is_ibid accepts, extract_ibid_page returns the page     *)
(* number or range that ends the text after the ibid prefix, null when     *)
(* there is none, and what it returns is a number or a number-number       *)
(* range.                                                                  *)
C23_PageFollowsPrefix ==
  (fpc = "ibid_done" /\ fret.accepted)
    => /\ fret.page = TrailingPage(WithoutFinalDot(arg1))
       /\ fret.page = <<>> \/ WellFormedPage(fret.page)

\* the URL without letter case, query string and trailing slashes
SameModuloCaseSlashQuery(url) ==
  LET lowered == LowerSeq(Strip(url))
      path == IF Contains(lowered, "?") THEN BeforeFirst(lowered, "?") ELSE lowered
  IN  RStripTok(path, "/")

(* C24: two URLs that differ only in letter case, trailing slash and query *)
(* string have the same normal form, two URLs of different paths have      *)
(* different normal forms, and urls_match is true exactly when both URLs   *)
(* are non-empty and their normal forms are equal.                         *)
C24_UrlEquivalence ==
  fpc = "urls_done"
    => /\ (fret.norm1 = fret.norm2)
            = (SameModuloCaseSlashQuery(arg1) = SameModuloCaseSlashQuery(arg2))
       /\ fret.match = (arg1 # <<>> /\ arg2 # <<>> /\ fret.norm1 = fret.norm2)

\* the text nodes of the content that hold a URL outside a field and outside
\* a w:hyperlink element
BareUrlNodes(content) ==
  {i \in 1..Len(content) :
     /\ content[i].k = "t"
     /\ content[i].url # NoUrl
     /\ ~(i > 3 /\ content[i - 3].k = "instr")
     /\ Cardinality({j \in 1..(i - 1) : content[j].k = "hopen"})
          = Cardinality({j \in 1..(i - 1) : content[j].k = "hclose"})}

\* the visible text of one text node after the text seen so far: lengths of
\* plain text alternate with URLs
RECURSIVE VisibleMore(_, _)
VisibleMore(seen, more) ==
  IF more = <<>> THEN seen
  ELSE VisibleMore(seen \o << [len |-> more[1].url.len, amps |-> more[1].url.amps],
                              more[1].url.trail + more[1].after >>,
                   Tail(more))

VisibleNode(seen, node) ==
  LET n == Len(seen)
  IN  IF node.url = NoUrl
      THEN [seen EXCEPT ![n] = @ + node.before + node.after]
      ELSE VisibleMore([seen EXCEPT ![n] = @ + node.before]
                         \o << [len |-> node.url.len, amps |-> node.url.amps],
                               node.url.trail + node.after >>,
                       node.more)

\* the visible text of content[1..i]
RECURSIVE VisibleText(_, _)
VisibleText(content, i) ==
  IF i = 0 THEN <<0>>
  ELSE IF content[i].k = "t" THEN VisibleNode(VisibleText(content, i - 1), content[i])
  ELSE VisibleText(content, i - 1)

(* C28: after one pass no text node outside a field or hyperlink element   *)
(* holds a bare URL, the second URL of a text node included, and the       *)
(* visible text (text before, URL, trailing punctuation, text after) is    *)
(* what it was, in the same order.                                         *)
C28_EveryBareUrlIsLinked ==
  passes = 1
    => /\ BareUrlNodes(pkg) = {}
       /\ VisibleText(pkg, Len(pkg)) = VisibleText(pkg_before, Len(pkg_before))

(***************************************************************************)
(* Claims about get_multiple_citations.                                    *)
(***************************************************************************)
MultiUnknownQuery ==
  /\ mpc \in {"done", "raised"}
  /\ Strip(mquery.text) # <<>>
  /\ mquery.dtype = "unknown" /\ ~mquery.legal /\ ~mquery.url

(* C27: for a query of detected type UNKNOWN, get_multiple_citations asks  *)
(* the AI classifier when one is available, and tries the book engines     *)
(* first when the classifier is unavailable.                               *)
C27_UnknownGoesToClassifier ==
  MultiUnknownQuery
    => /\ ai_available => (mcalled # <<>> /\ mcalled[1] = "classify_with_ai")
       /\ ~ai_available => (mcalled # <<>> /\ mcalled[1] = "books")

(***************************************************************************)
(* Claims about the package operations.                                    *)
(***************************************************************************)
(* C21: when a package operation ends, by return or by exception, no       *)
(* temporary working directory it created is left.                         *)
C21_TempDirsDeleted == stage = "ended" => tempdirs = {}

\* the archive cannot be opened, or its note-definitions part cannot be parsed
PackageLevelFailure ==
  \/ ~job.archive.ok
  \/ /\ "endnotes" \in DOMAIN job.archive.parts
     /\ ~job.archive.parts["endnotes"].wellformed

(* C22: process_document and update_document_note end by an error, never   *)
(* by a normal result, when the archive cannot be opened or the            *)
(* note-definitions part cannot be parsed.                                 *)
C22_PackageFailureIsFatal ==
  (/\ stage = "ended"
   /\ job.op \in {"process_document", "update_document_note"}
   /\ PackageLevelFailure)
  => outcome.kind = "raised"

(* C25: the package process_document returns has the parts of the input,   *)
(* and every part in which no note was written and no URL was made a       *)
(* hyperlink is byte-identical to the input part.                          *)
C25_UnrelatedPartsIdentical ==
  (stage = "ended" /\ job.op = "process_document" /\ outcome.kind = "returned")
  => /\ DOMAIN outcome.parts = DOMAIN job.archive.parts
     /\ \A p \in DOMAIN outcome.parts :
          (~outcome.parts[p].written /\ ~outcome.parts[p].linked)
            => outcome.parts[p] = job.archive.parts[p]

====
